---- MODULE Spec2Model ----
(***************************************************************************)
(* Path enumeration of graphql-enum: internal/traverser/sequential.go      *)
(* (Sequential.FindPaths / dfs) and internal/traverser/parallel.go         *)
(* (Parallel.FindPaths / processJob) over a schema.Schema.                  *)
(*                                                                         *)
(* A run is: the caller builds a schema, a list of entry points, a target  *)
(* and a maxDepth, calls Sequential.FindPaths on them and then             *)
(* Parallel.FindPaths on the same arguments.                               *)
(*                                                                         *)
(* Go slices are modelled as they are: a slice value is a header           *)
(* [arr, len, cap] into a heap of backing arrays, and append writes in     *)
(* place when len < cap.                                                   *)
(*                                                                         *)
(* Further sections model the command-line programs (src/main.go and the   *)
(* programs of src/unnamed/part_000), internal/generator/query.go          *)
(* (Generator.generateOne) and the tui package (Model.Update), each with   *)
(* a specification of its own: CliSpec, GenSpec, UiSpec.                   *)
(***************************************************************************)
EXTENDS Integers, Sequences, FiniteSets, Bags, TLC

\* ------------------------------------------------------------------ bounds
\* types of the longest schema
MaxTypes == 7
\* largest maxDepth passed to the enumerators (the smallest is -1)
MaxDepthArg == 7
\* entry points passed to FindPaths
MaxEntries == 2
\* largest worker count passed to NewParallel (the smallest is 0)
MaxWorkersArg == 1
\* capacity of the jobs channel (1000 in parallel.go:38), scaled down so
\* that the seeding loop meets a full channel
QueueCap == 1
\* types of the longest schema of the fair runs
LiveTypes == 3

\* ------------------------------------------------------- program constants
FanOutCap == 5
DefaultWorkers == 4

VARIABLES
  schema,        \* Schema.Types: type name -> sequence of Field
  entryPoints,   \* []schema.EntryPoint
  targetType,
  maxDepth,
  pc,            \* position of the caller: "seq", "seqDone", "par", "done"
  heap,          \* backing arrays of []PathSegment slices
  stack,         \* active dfs calls, innermost last
  epIdx,         \* index of the next entry point of Sequential.FindPaths
  seqPaths,      \* paths of Sequential.FindPaths: [Segments: slice header, Depth]
  workers,       \* Parallel.workers
  parPc,         \* position of the goroutine running Parallel.FindPaths
  seedIdx,       \* index of the next entry point of the seeding loop
  seedRead,      \* value of paths the seeding loop's append has read
  jobs,          \* the jobs channel
  closed,        \* jobs has been closed
  pool,          \* bag of the worker goroutines' local states
  mutex,         \* pathsMutex: "free" or "worker"
  parPaths,      \* paths of Parallel.FindPaths
  produced,      \* history: every path handed to an append of paths
  received,      \* history: bag of the jobs received by workers
  prog,          \* the command-line program that runs, "" when none does
  data,          \* the schema file's content
  opts,          \* the flags -type, -max-depth, -limit and -mutations
  graph,         \* the *Graph (or *schema.Schema) the program has built
  format,        \* the format name parseSchema has returned
  err,           \* the error of parseSchema, "" for nil
  paths,         \* the paths returned to main
  exitCode,      \* the status passed to os.Exit, -1 while the program runs
  cliPc,         \* position of main: "off", "start", "parsed", "checked",
                 \* "searched", "exited"
  genSchema,     \* Generator.schema: type name -> schema.Type
  genPath,       \* the schema.GraphQLPath given to generateOne
  queryBuilder,  \* the text written so far, as the sequence of its pieces
  queryVars,     \* the map vars of generateOne: variable name -> value
  varDefs,       \* the declarations "$name: type" collected for the header
  indent,        \* length of the string indent (it holds spaces only)
  segIdx,        \* index of the loop that runs in generateOne
  genPc,         \* position of generateOne: "off", "collect", "header",
                 \* "body", "close", "done"
  uiModel,       \* the tui.Model the Bubble Tea runtime holds
  uiMsg,         \* the message last passed to Model.Update
  uiCmd,         \* the tea.Cmd that call of Update returned
  uiPending,     \* the messages of the commands that run, not yet delivered
  uiPc           \* "off", "running", or "quit" once tea.Quit has run

vars == <<schema, entryPoints, targetType, maxDepth, pc, heap, stack, epIdx,
          seqPaths, workers, parPc, seedIdx, seedRead, jobs, closed, pool,
          mutex, parPaths, produced, received,
          prog, data, opts, graph, format, err, paths, exitCode,
          cliPc,
          genSchema, genPath, queryBuilder, queryVars, varDefs, indent,
          segIdx, genPc, uiModel, uiMsg, uiCmd, uiPending, uiPc>>

genState == <<genSchema, genPath, queryBuilder, queryVars, varDefs, indent,
              segIdx, genPc>>
uiState == <<uiModel, uiMsg, uiCmd, uiPending, uiPc>>
frontVars == <<genState, uiState>>
cliVars == <<prog, data, opts, graph, format, err, paths, exitCode,
          cliPc>>
inputVars == <<schema, entryPoints, targetType, maxDepth>>
seqVars == <<heap, stack, epIdx, seqPaths>>
parVars == <<workers, parPc, seedIdx, seedRead, jobs, closed, pool, mutex,
             parPaths, produced, received>>

\* ------------------------------------------------------------ the schema
\* Type names are 1..n; 0 is a name no schema defines (a dangling reference).
Dangling == 0

Field(name, type, args) == [Name |-> name, Type |-> type, Args |-> args]

\* The fields of type t in a schema of n types T1 -> T2 -> ... -> Tn linked
\* by "next", where type x.from carries one more field "alt" to x.to,
\* declared after "next".
FieldsOf(t, n, x) ==
  LET next == IF t < n THEN <<Field("next", t + 1, <<>>)>> ELSE <<>>
      alt  == IF x.from = t THEN <<Field("alt", x.to, <<"id">>)>> ELSE <<>>
  IN  next \o alt

NoExtra == [from |-> Dangling, to |-> Dangling]

Extras(n) == {NoExtra} \cup [from : 1..n, to : 0..n]

EntryPoint(i) == [Name |-> "e" \o ToString(i), Type |-> i, Args |-> <<"id">>]

DepthValues == (0 - 1)..MaxDepthArg

\* Schema.TypeExists / Schema.GetType
TypeExists(name) == name \in DOMAIN schema
GetType(name) == schema[name]

\* ------------------------------------------------------------- Go slices
NoSeg == [Name |-> "", Type |-> 0 - 1, Args |-> <<>>]

Segment(e) == [Name |-> e.Name, Type |-> e.Type, Args |-> e.Args]

\* capacity chosen by append when the array is full: the gc runtime doubles
\* small slices (1, 2, 4, 8 for the 56-byte PathSegment, whose sizes fall on
\* exact allocation size classes)
GrowCap(oldCap, needed) == IF needed > 2 * oldCap THEN needed ELSE 2 * oldCap

\* the elements of a slice
Elems(h, s) == SubSeq(h[s.arr], 1, s.len)

\* append(s, seg): [heap, slice] after the append
SliceAppend(h, s, seg) ==
  IF s.len < s.cap
  THEN [heap  |-> [h EXCEPT ![s.arr][s.len + 1] = seg],
        slice |-> [s EXCEPT !.len = s.len + 1]]
  ELSE LET c == GrowCap(s.cap, s.len + 1)
           a == [k \in 1..c |-> IF k <= s.len THEN h[s.arr][k]
                                ELSE IF k = s.len + 1 THEN seg ELSE NoSeg]
       IN  [heap  |-> Append(h, a),
            slice |-> [arr |-> Len(h) + 1, len |-> s.len + 1, cap |-> c]]

\* --------------------------------------------------- Sequential.FindPaths
Top == stack[Len(stack)]
Pop == SubSeq(stack, 1, Len(stack) - 1)

Frame(type, path, visited, depth) ==
  [currentType |-> type, currentPath |-> path, visited |-> visited,
   depth |-> depth, i |-> 1]

\* the depth test of dfs, one level late
dfsDepthReachedLate(depth) == depth > maxDepth

\* dfs: "if depth >= s.maxDepth { return }"
dfsDepthReached(depth) == depth >= maxDepth

\* the range loop of dfs is over, or dfs returned before it
dfsFinished(f) ==
  IF dfsDepthReached(f.depth) THEN TRUE
  ELSE IF ~TypeExists(f.currentType) THEN TRUE
  ELSE f.i > Len(GetType(f.currentType))

\* one iteration of "for _, ep := range entryPoints" up to the call of dfs
SeqEntry ==
  /\ pc = "seq" /\ stack = <<>> /\ epIdx <= Len(entryPoints)
  /\ LET ep   == entryPoints[epIdx]
         path == [arr |-> Len(heap) + 1, len |-> 1, cap |-> 1]
     IN  /\ heap' = Append(heap, <<Segment(ep)>>)
         /\ seqPaths' = IF ep.Type = targetType
                        THEN Append(seqPaths, [Segments |-> path, Depth |-> 1])
                        ELSE seqPaths
         /\ stack' = <<Frame(ep.Type, path, {ep.Type}, 1)>>
  /\ epIdx' = epIdx + 1
  /\ UNCHANGED <<frontVars, cliVars, inputVars, parVars, pc>>

\* dfs returns to its caller
DfsReturn ==
  /\ pc = "seq" /\ stack # <<>> /\ dfsFinished(Top)
  /\ stack' = Pop
  /\ UNCHANGED <<frontVars, cliVars, inputVars, parVars, pc, heap, epIdx, seqPaths>>

CurField == GetType(Top.currentType)[Top.i]

Advance(st) == [st EXCEPT ![Len(st)].i = st[Len(st)].i + 1]

\* "if visited[field.Type] { continue }"
DfsSkip ==
  /\ pc = "seq" /\ stack # <<>> /\ ~dfsFinished(Top)
  /\ CurField.Type \in Top.visited
  /\ stack' = Advance(stack)
  /\ UNCHANGED <<frontVars, cliVars, inputVars, parVars, pc, heap, epIdx, seqPaths>>

\* "newPath := append(currentPath, newSegment)" and the record of a path
DfsRecord ==
  /\ pc = "seq" /\ stack # <<>> /\ ~dfsFinished(Top)
  /\ CurField.Type \notin Top.visited
  /\ CurField.Type = targetType
  /\ LET r == SliceAppend(heap, Top.currentPath, Segment(CurField))
     IN  /\ heap' = r.heap
         /\ seqPaths' = Append(seqPaths, [Segments |-> r.slice,
                                          Depth |-> Top.depth + 1])
  /\ stack' = Advance(stack)
  /\ UNCHANGED <<frontVars, cliVars, inputVars, parVars, pc, epIdx>>

\* "newPath := append(currentPath, newSegment)" and the recursive call
DfsDescend ==
  /\ pc = "seq" /\ stack # <<>> /\ ~dfsFinished(Top)
  /\ CurField.Type \notin Top.visited
  /\ CurField.Type # targetType
  /\ LET r == SliceAppend(heap, Top.currentPath, Segment(CurField))
     IN  /\ heap' = r.heap
         /\ stack' = Append(Advance(stack),
                            Frame(CurField.Type, r.slice,
                                  Top.visited \cup {CurField.Type},
                                  Top.depth + 1))
  /\ UNCHANGED <<frontVars, cliVars, inputVars, parVars, pc, epIdx, seqPaths>>

\* "return paths"
SeqReturn ==
  /\ pc = "seq" /\ stack = <<>> /\ epIdx > Len(entryPoints)
  /\ pc' = "seqDone"
  /\ UNCHANGED <<frontVars, cliVars, inputVars, seqVars, parVars>>

\* the segments of the i-th returned path, read through its slice header
SeqSegments(i) == Elems(heap, seqPaths[i].Segments)

\* ----------------------------------------------------- Parallel.FindPaths
\* NewParallel: "if workers <= 0 { workers = 4 }"
NewParallelWorkers(w) == IF w <= 0 THEN DefaultWorkers ELSE w

WorkerArgs == 0..MaxWorkersArg

\* processJob: "if j.depth >= p.maxDepth { return nil }"
jobDepthReached(depth) == depth >= maxDepth

\* the fan-out test of processJob, one level late
goDeeperLate(depth) == depth <= FanOutCap

\* processJob: "if j.depth < 5" guards the recursive call
goDeeper(depth) == depth < FanOutCap

Job(type, path, visited, depth) ==
  [currentType |-> type, path |-> path, visited |-> visited, depth |-> depth]

\* processJob copies j.path into a fresh array before each append, so a
\* path is a value here: the sequence of its segments.
RECURSIVE processJob(_), processFields(_, _)

\* the results of the iterations i.. of "for _, field := range typ.Fields"
processFields(j, i) ==
  IF i > Len(GetType(j.currentType)) THEN <<>>
  ELSE LET field   == GetType(j.currentType)[i]
           newPath == Append(j.path, Segment(field))
           results ==
             IF field.Type \in j.visited THEN <<>>
             ELSE IF field.Type = targetType
             THEN <<[Segments |-> newPath, Depth |-> j.depth + 1]>>
             ELSE IF goDeeper(j.depth)
             THEN processJob(Job(field.Type, newPath,
                                 j.visited \cup {field.Type}, j.depth + 1))
             ELSE <<>>
       IN  results \o processFields(j, i + 1)

processJob(j) ==
  IF jobDepthReached(j.depth) THEN <<>>
  ELSE IF ~TypeExists(j.currentType) THEN <<>>
  ELSE processFields(j, 1)

\* local state of a worker goroutine
Worker(at, localPaths, read) ==
  [at |-> at, localPaths |-> localPaths, read |-> read]

Receiving == Worker("recv", <<>>, <<>>)
Exited == Worker("exit", <<>>, <<>>)

\* one worker of the pool goes from local state s to local state t
Move(s, t) == (pool (-) SetToBag({s})) (+) SetToBag({t})

InPool(at) == {s \in BagToSet(pool) : s.at = at}

\* NewParallel, then FindPaths up to the end of the "Start workers" loop
ParStart ==
  /\ pc = "seqDone"
  /\ \E w \in WorkerArgs : workers' = NewParallelWorkers(w)
  /\ pool' = (Receiving :> workers')
  /\ pc' = "par" /\ parPc' = "seed"
  /\ UNCHANGED <<frontVars, cliVars, inputVars, seqVars, seedIdx, seedRead, jobs, closed, mutex,
                 parPaths, produced, received>>

SeedEntry == entryPoints[seedIdx]
RootPath(ep) == [Segments |-> <<Segment(ep)>>, Depth |-> 1]

\* The seeding loop appends to paths without pathsMutex while the workers
\* run: a data race. Its outcomes are modelled as the interleavings of the
\* reads and writes of the slice header paths.
\* seeding loop, "paths = append(paths, ...)": the read of paths
SeedRead ==
  /\ parPc = "seed" /\ seedIdx <= Len(entryPoints)
  /\ SeedEntry.Type = targetType
  /\ seedRead' = parPaths
  /\ produced' = produced \cup {RootPath(SeedEntry)}
  /\ parPc' = "append"
  /\ UNCHANGED <<frontVars, cliVars, inputVars, seqVars, pc, workers, seedIdx, jobs, closed, pool,
                 mutex, parPaths, received>>

\* seeding loop, "paths = append(paths, ...)": the write of paths
SeedWrite ==
  /\ parPc = "append"
  /\ parPaths' = Append(seedRead, RootPath(SeedEntry))
  /\ seedRead' = <<>>
  /\ parPc' = "send"
  /\ UNCHANGED <<frontVars, cliVars, inputVars, seqVars, pc, workers, seedIdx, jobs, closed, pool,
                 mutex, produced, received>>

\* seeding loop, "jobs <- job{...}": blocks while the channel is full
SeedSend ==
  /\ \/ parPc = "send"
     \/ /\ parPc = "seed" /\ seedIdx <= Len(entryPoints)
        /\ SeedEntry.Type # targetType
  /\ Len(jobs) < QueueCap
  /\ jobs' = Append(jobs, Job(SeedEntry.Type, <<Segment(SeedEntry)>>,
                              {SeedEntry.Type}, 1))
  /\ seedIdx' = seedIdx + 1
  /\ parPc' = "seed"
  /\ UNCHANGED <<frontVars, cliVars, inputVars, seqVars, pc, workers, seedRead, closed, pool,
                 mutex, parPaths, produced, received>>

\* the seeding loop ends without closing the channel
CloseJobsForgotten ==
  /\ parPc = "seed" /\ seedIdx > Len(entryPoints)
  /\ parPc' = "wait"
  /\ UNCHANGED <<frontVars, cliVars, inputVars, seqVars, pc, workers, seedIdx, seedRead, jobs,
                 closed, pool, mutex, parPaths, produced, received>>

\* "close(jobs)"
CloseJobs ==
  /\ parPc = "seed" /\ seedIdx > Len(entryPoints)
  /\ closed' = TRUE
  /\ parPc' = "wait"
  /\ UNCHANGED <<frontVars, cliVars, inputVars, seqVars, pc, workers, seedIdx, seedRead, jobs,
                 pool, mutex, parPaths, produced, received>>

\* "wg.Wait()" and "return paths"
WaitReturn ==
  /\ parPc = "wait"
  /\ \A s \in BagToSet(pool) : s.at = "exit"
  /\ parPc' = "done" /\ pc' = "done"
  /\ UNCHANGED <<frontVars, cliVars, inputVars, seqVars, workers, seedIdx, seedRead, jobs, closed,
                 pool, mutex, parPaths, produced, received>>

\* worker, "for j := range jobs" receives a job and runs processJob on it
WorkerReceive ==
  /\ Receiving \in BagToSet(pool) /\ jobs # <<>>
  /\ LET j == Head(jobs)
         localPaths == processJob(j)
     IN  /\ received' = received (+) SetToBag({j})
         /\ produced' = produced \cup {localPaths[k] : k \in 1..Len(localPaths)}
         /\ pool' = IF Len(localPaths) > 0
                    THEN Move(Receiving, Worker("lock", localPaths, <<>>))
                    ELSE pool
  /\ jobs' = Tail(jobs)
  /\ UNCHANGED <<frontVars, cliVars, inputVars, seqVars, pc, workers, parPc, seedIdx, seedRead,
                 closed, mutex, parPaths>>

\* worker, "for j := range jobs" ends: the channel is closed and empty
WorkerExit ==
  /\ Receiving \in BagToSet(pool) /\ jobs = <<>> /\ closed
  /\ pool' = Move(Receiving, Exited)
  /\ UNCHANGED <<frontVars, cliVars, inputVars, seqVars, pc, workers, parPc, seedIdx, seedRead,
                 jobs, closed, mutex, parPaths, produced, received>>

\* worker, "pathsMutex.Lock()" and the read of paths by append
WorkerLock ==
  /\ mutex = "free"
  /\ \E s \in InPool("lock") :
        pool' = Move(s, Worker("write", s.localPaths, parPaths))
  /\ mutex' = "worker"
  /\ UNCHANGED <<frontVars, cliVars, inputVars, seqVars, pc, workers, parPc, seedIdx, seedRead,
                 jobs, closed, parPaths, produced, received>>

\* worker, the write of paths by append and "pathsMutex.Unlock()"
WorkerUnlock ==
  /\ \E s \in InPool("write") :
        /\ parPaths' = s.read \o s.localPaths
        /\ pool' = Move(s, Receiving)
  /\ mutex' = "free"
  /\ UNCHANGED <<frontVars, cliVars, inputVars, seqVars, pc, workers, parPc, seedIdx, seedRead,
                 jobs, closed, produced, received>>

\* a nil *Graph
NoGraph == [Nil |-> TRUE]
\* no schema file has been read
NoData == [Nil |-> TRUE]
NoOpts == [Nil |-> TRUE]

\* no command-line program runs: FindPaths is called as a library
\* an empty map and a nil *schema.Schema
NoVars == [k \in {} |-> ""]
NoSchema == [k \in {} |-> ""]
NoModel == [Nil |-> TRUE]

\* generateOne does not run
GenOff ==
  /\ genSchema = NoSchema /\ genPath = <<>> /\ queryBuilder = <<>>
  /\ queryVars = NoVars /\ varDefs = <<>> /\ indent = 0 /\ segIdx = 1
  /\ genPc = "off"

\* the interactive UI does not run
\* no message, and the nil tea.Cmd
NoMsg == [type |-> "none", key |-> "", text |-> "", size |-> <<0, 0>>]
NoCmd == [kind |-> "nil", text |-> ""]
UiOff ==
  /\ uiModel = NoModel /\ uiMsg = NoMsg /\ uiCmd = NoCmd
  /\ uiPending = {} /\ uiPc = "off"

CliOff ==
  /\ prog = "" /\ data = NoData /\ opts = NoOpts /\ graph = NoGraph
  /\ format = "" /\ err = "" /\ paths = <<>> /\ exitCode = 0 - 1 /\ cliPc = "off"

InitWith(maxTypes) ==
  /\ CliOff /\ GenOff /\ UiOff
  /\ \E n \in 1..maxTypes : \E x \in Extras(n) :
        /\ schema = [t \in 1..n |-> FieldsOf(t, n, x)]
        /\ targetType = n
  /\ \E k \in 1..MaxEntries : entryPoints = [i \in 1..k |-> EntryPoint(i)]
  /\ maxDepth \in DepthValues
  /\ pc = "seq"
  /\ heap = <<>> /\ stack = <<>> /\ epIdx = 1 /\ seqPaths = <<>>
  /\ workers = 0 /\ parPc = "idle" /\ seedIdx = 1 /\ seedRead = <<>>
  /\ jobs = <<>> /\ closed = FALSE /\ pool = EmptyBag /\ mutex = "free"
  /\ parPaths = <<>> /\ produced = {} /\ received = EmptyBag

Init == InitWith(MaxTypes)

Next ==
  \/ SeqEntry
  \/ DfsReturn
  \/ DfsSkip
  \/ DfsRecord
  \/ DfsDescend
  \/ SeqReturn
  \/ ParStart
  \/ SeedRead
  \/ SeedWrite
  \/ SeedSend
  \/ CloseJobs
  \/ WaitReturn
  \/ WorkerReceive
  \/ WorkerExit
  \/ WorkerLock
  \/ WorkerUnlock

Spec == Init /\ [][Next]_vars
\* Fair runs: the Go scheduler lets every goroutine that can take a step take
\* one eventually, and a blocked channel or mutex operation resumes once it
\* is possible. Checked over the schemas of at most LiveTypes types.
LiveSpec == InitWith(LiveTypes) /\ [][Next]_vars /\ WF_vars(Next)

\* ------------------------------------------------------------ properties
SeqDone == pc \in {"seqDone", "par", "done"}
ParDone == pc = "done"

Names(p) == [k \in 1..Len(p) |-> p[k].Name]
Types(p) == [k \in 1..Len(p) |-> p[k].Type]

SeqResult == {SeqSegments(i) : i \in 1..Len(seqPaths)}
ParResult == {parPaths[i].Segments : i \in 1..Len(parPaths)}

\* The reference enumeration: the routes e, f1, ..., fk of at most maxDepth
\* segments whose types are pairwise distinct and of which only the last is
\* the target.
RECURSIVE RoutesFrom(_, _)
RoutesFrom(route, seen) ==
  LET t == route[Len(route)].Type
  IN  IF Len(route) >= maxDepth \/ ~TypeExists(t) THEN {}
      ELSE UNION { LET f == GetType(t)[i]
                   IN  IF f.Type \in seen THEN {}
                       ELSE IF f.Type = targetType
                       THEN {Append(route, Segment(f))}
                       ELSE RoutesFrom(Append(route, Segment(f)),
                                       seen \cup {f.Type})
                   : i \in 1..Len(GetType(t)) }

RefRoutes ==
  UNION { LET e == entryPoints[i]
          IN  IF e.Type = targetType
              THEN (IF maxDepth >= 1 THEN {<<Segment(e)>>} ELSE {})
              ELSE RoutesFrom(<<Segment(e)>>, {e.Type})
          : i \in 1..Len(entryPoints) }

\* p is a genuine route: from an entry point, along fields, to the target
IsRoute(p) ==
  /\ Len(p) >= 1
  /\ \E i \in 1..Len(entryPoints) : p[1] = Segment(entryPoints[i])
  /\ \A k \in 2..Len(p) :
        /\ TypeExists(p[k - 1].Type)
        /\ \E i \in 1..Len(GetType(p[k - 1].Type)) :
              p[k] = Segment(GetType(p[k - 1].Type)[i])
  /\ p[Len(p)].Type = targetType

\* every type name the input mentions
TypeNames ==
  DOMAIN schema
  \cup UNION {{schema[t][i].Type : i \in 1..Len(schema[t])} : t \in DOMAIN schema}
  \cup {entryPoints[i].Type : i \in 1..Len(entryPoints)}
Max(a, b) == IF a >= b THEN a ELSE b

\* C1: for maxDepth >= 1 the list returned by Sequential.FindPaths holds,
\* for every route of the reference enumeration, a path with exactly that
\* route's segment names.
C1_SeqComplete ==
  (SeqDone /\ maxDepth >= 1) =>
     \A r \in RefRoutes : \E p \in SeqResult : Names(p) = Names(r)

\* C2: every path returned by Sequential.FindPaths is a genuine route that
\* ends at the target, and the result is empty when no route exists (the
\* depth bound on its own is the subject of C3, so maxDepth >= 1 here).
C2_SeqSound ==
  SeqDone =>
     /\ \A p \in SeqResult : IsRoute(p)
     /\ (maxDepth >= 1 /\ RefRoutes = {}) => seqPaths = <<>>

\* C3: for every maxDepth, zero and negative included, every path returned
\* by either enumerator has Depth = number of segments and Depth <= maxDepth.
C3_DepthBound ==
  /\ SeqDone =>
        \A i \in 1..Len(seqPaths) :
           /\ seqPaths[i].Depth = Len(SeqSegments(i))
           /\ seqPaths[i].Depth <= maxDepth
  /\ ParDone =>
        \A i \in 1..Len(parPaths) :
           /\ parPaths[i].Depth = Len(parPaths[i].Segments)
           /\ parPaths[i].Depth <= maxDepth

\* C4: below the fan-out cap both enumerators return the same set of
\* segment sequences, whatever the worker count and the scheduling.
C4_SeqParEqual ==
  (ParDone /\ maxDepth < FanOutCap) => SeqResult = ParResult

\* C5: for every entry point whose type is the target, both results hold
\* the path of Depth 1 made of that entry point alone.
C5_RootIncluded ==
  \A i \in 1..Len(entryPoints) :
     entryPoints[i].Type = targetType =>
        /\ SeqDone =>
              \E k \in 1..Len(seqPaths) :
                 /\ seqPaths[k].Depth = 1
                 /\ SeqSegments(k) = <<Segment(entryPoints[i])>>
        /\ ParDone =>
              \E k \in 1..Len(parPaths) :
                 parPaths[k] = RootPath(entryPoints[i])

\* the types of the active dfs calls are pairwise distinct
NoReentry ==
  \A a, b \in 1..Len(stack) :
     a # b => stack[a].currentType # stack[b].currentType

\* C6 (as stated): the nesting of dfs calls never exceeds maxDepth nor the
\* number of distinct type names, for every maxDepth.
C6_NestingBound ==
  stack # <<>> =>
     /\ Len(stack) <= maxDepth
     /\ Len(stack) <= Cardinality(TypeNames)

\* C6 (amended): Sequential.FindPaths terminates, and the nesting of dfs
\* calls never exceeds max(maxDepth, 1) nor the number of distinct type
\* names, no type being entered twice on a branch.
C6_NestingBoundAmended ==
  /\ [](/\ Len(stack) <= Max(maxDepth, 1)
        /\ Len(stack) <= Cardinality(TypeNames)
        /\ NoReentry)
  /\ <>SeqDone

\* a cycle is pruned: the field under examination leads back to a type of
\* the current branch, at nesting 2 or more
C6_Witness ==
  /\ pc = "seq" /\ Len(stack) >= 2 /\ ~dfsFinished(Top)
  /\ CurField.Type \in Top.visited

\* C7: exploring a field changes neither the visited set of an active call
\* nor the segments of a path already recorded.
C7_NoSharedState ==
  [][/\ \A k \in 1..Len(stack) :
           k <= Len(stack') => stack'[k].visited = stack[k].visited
     /\ \A i \in 1..Len(seqPaths) :
           Elems(heap', seqPaths'[i].Segments) = SeqSegments(i)]_vars

\* C8: every append to paths is made holding the mutex, and the returned
\* collection holds every path handed to an append, once.
C8_AppendsLocked ==
  /\ parPc = "append" => mutex = "main"
  /\ ParDone =>
        /\ ParResult = {q.Segments : q \in produced}
        /\ Len(parPaths) = Cardinality(produced)

\* the jobs the seeding loop sends
SeededJobs ==
  {Job(entryPoints[i].Type, <<Segment(entryPoints[i])>>,
       {entryPoints[i].Type}, 1) : i \in 1..Len(entryPoints)}

\* C9: Parallel.FindPaths eventually returns; when it has, the channel is
\* closed and drained, every seeded job was received exactly once, and all
\* of the workers (4 for a worker count <= 0) have exited.
C9_ParReturns ==
  /\ <>(parPc = "done")
  /\ [](parPc = "done" =>
          /\ closed /\ jobs = <<>>
          /\ BagToSet(received) = SeededJobs
          /\ \A j \in SeededJobs : CopiesIn(j, received) = 1
          /\ pool = (Exited :> workers)
          /\ workers >= 1)

\* returned with the default worker count and more entry points than the
\* channel holds
C9_Witness ==
  /\ parPc = "done" /\ workers = DefaultWorkers
  /\ Len(entryPoints) > QueueCap
  /\ BagCardinality(received) = Len(entryPoints)

\* C10 (as stated): routes longer than the threshold and within maxDepth
\* are returned by Parallel.FindPaths.
C10_DeepRoutesReturned ==
  ParDone => \A r \in RefRoutes : Len(r) > FanOutCap => r \in ParResult

\* C10 (amended): a branch that reaches job depth 5 is abandoned, neither
\* enqueued nor continued: processJob finds every route of at most 6
\* segments within maxDepth, and no returned path has more than 6.
C10_BranchAbandoned ==
  /\ \A k \in 1..Len(jobs) : jobs[k].depth = 1
  /\ ParDone =>
        /\ \A i \in 1..Len(parPaths) : parPaths[i].Depth <= FanOutCap + 1
        /\ \A r \in RefRoutes :
              Len(r) <= FanOutCap + 1 =>
                 \E q \in produced : q.Segments = r

\* returned with a route of 7 or more segments within maxDepth left out
\* and one of 6 segments found
C10_Witness ==
  /\ ParDone /\ maxDepth > FanOutCap + 1
  /\ \E r \in RefRoutes : Len(r) > FanOutCap + 1 /\ r \notin ParResult
  /\ \E i \in 1..Len(parPaths) : parPaths[i].Depth = FanOutCap + 1

\* ======================================================================
\* The command-line programs: src/main.go (parseSchema, findPaths), the
\* older copy of it in src/unnamed/part_000:244-956 (its parseSchema) and
\* the traverser-based main of src/unnamed/part_000:1-242.
\* ======================================================================

\* ------------------------------------------------------------ Go strings
\* A string whose characters the code inspects (a type reference of the
\* GitHub format, the name of a mutation or of a return field) is the
\* sequence of its pieces; every other string is a TLA+ string.
RECURSIVE Str(_)
Str(s) == IF s = <<>> THEN "" ELSE s[1] \o Str(Tail(s))

\* strings.ReplaceAll(t, c, "") for a one-character c
RemoveAll(t, c) == SelectSeq(t, LAMBDA x : x # c)

\* strings.Contains
Contains(s, sub) ==
  \E i \in 1..(Len(s) + 1) :
     /\ i + Len(sub) - 1 <= Len(s)
     /\ SubSeq(s, i, i + Len(sub) - 1) = sub

\* strings.HasSuffix / strings.HasPrefix
HasSuffix(s, suf) ==
  /\ Len(suf) <= Len(s)
  /\ SubSeq(s, Len(s) - Len(suf) + 1, Len(s)) = suf
HasPrefix(s, pre) == Len(pre) <= Len(s) /\ SubSeq(s, 1, Len(pre)) = pre

\* strings.ToLower, on the letters the documents use
LowerOf(c) ==
  CASE c = "A" -> "a" [] c = "T" -> "t" [] c = "E" -> "e" [] c = "C" -> "c"
    [] c = "N" -> "n" [] OTHER -> c
ToLower(s) == [i \in 1..Len(s) |-> LowerOf(s[i])]

\* cleanTypeName: every "!", "[" and "]" removed
cleanTypeName(t) == Str(RemoveAll(RemoveAll(RemoveAll(t, "!"), "["), "]"))

\* ------------------------------------------------ Introspection documents
\* TypeRef{Kind, Name, OfType}: a named type, or a NON_NULL / LIST wrapper
Named(name) == [Kind |-> "NAMED", Name |-> name]
NonNull(t) == [Kind |-> "NON_NULL", Name |-> "", OfType |-> t]
ListOf(t) == [Kind |-> "LIST", Name |-> "", OfType |-> t]

RECURSIVE unwrapType(_)
unwrapType(t) ==
  IF t.Name # "" THEN t.Name
  ELSE IF "OfType" \in DOMAIN t THEN unwrapType(t.OfType)
  ELSE ""

\* ---------------------------------------------------------- the documents
\* objects O1..Ok that implement the interface Node
MaxObjects == 2
\* return fields of the longest mutation
MaxReturnFields == 2
\* largest -max-depth given on the command line
MaxCliDepth == 3

ObjName(i) == "O" \o ToString(i)

\* IntrospectionArg / IntrospectionField / FullType
IArg(name, type) == [Name |-> name, Type |-> type]
IField(name, type, args) == [Name |-> name, Type |-> type, Args |-> args]
FullType(kind, name, fields, interfaces, possibleTypes) ==
  [Kind |-> kind, Name |-> name, Fields |-> fields,
   Interfaces |-> interfaces, PossibleTypes |-> possibleTypes]

\* GitHubArg / GitHubField / GitHubTypeDef / GitHubUnion / GitHubReturnField
GArg(name, type) == [Name |-> name, Type |-> type]
GField(name, type, arguments) ==
  [Name |-> name, Type |-> type, Arguments |-> arguments]
GTypeDef(name, fields, implements) ==
  [Name |-> name, Fields |-> fields, Implements |-> implements]
GUnion(name, possibleTypes) == [Name |-> name, PossibleTypes |-> possibleTypes]
GReturnField(name, type, kind) == [Name |-> name, Type |-> type, Kind |-> kind]
\* GitHubFieldDef, an element of "queries" or "mutations"
GFieldDef(name, type, args, inputFields, returnFields) ==
  [Name |-> name, Type |-> type, Args |-> args, InputFields |-> inputFields,
   ReturnFields |-> returnFields]

\* A schema file after json.Unmarshal into IntrospectionFormat and into
\* GitHubFormat. Valid: the bytes are JSON. TypesNil: data.__schema.types is
\* absent or null (a nil slice). A nil *NamedType is the name "".
Document(valid, query, mutation, subscription, nil, types, qs, ms, os, is, us) ==
  [Valid |-> valid, QueryType |-> query, MutationType |-> mutation,
   SubscriptionType |-> subscription, TypesNil |-> nil, Types |-> types,
   Queries |-> qs, Mutations |-> ms, Objects |-> os, Interfaces |-> is,
   Unions |-> us]

\* bytes that are not JSON, and the JSON document {}
NotJSON == Document(FALSE, "", "", "", TRUE, <<>>, <<>>, <<>>, <<>>, <<>>, <<>>)
EmptyObject == Document(TRUE, "", "", "", TRUE, <<>>, <<>>, <<>>, <<>>, <<>>, <<>>)

\* The schemas of the documents. Query has the fields gone: Missing (a type
\* no document defines), node(id: ID!): Node and search: [Result!]!; the
\* interface Node, with the fields id: ID! and parent: Node, is implemented
\* by the objects O1..Ok, each with the field t: T!; the union Result has the member T; the mutation addT returns
\* AddTPayload, whose field t has the type T; Subscription has the field
\* tAdded: T.
\*   objs    k
\*   twice   the objects list Node twice in "implements"
\*   parent  the interface Node implements the interface Entity
\*   gone    Query has the field gone
\*   union   Query has the field search
\*   sub     the schema has a subscription type
\*   returns the return fields of addT in the GitHub format
ReturnField(n) ==
  CASE n = 1 -> GReturnField(<<"i", "d">>, <<"ID", "!">>, "scalars")
    [] n = 2 -> GReturnField(<<"t">>, <<"T", "!">>, "objects")
    [] n = 3 -> GReturnField(<<"t", "E", "d", "g", "e">>, <<"TEdge">>, "objects")
    [] n = 4 -> GReturnField(<<"a", "d", "d", "T", "s">>, <<"Int">>, "scalars")
    [] n = 5 -> GReturnField(<<"n", "o", "d", "e">>, <<"Node">>, "interfaces")

ReturnFieldKinds == 1..5

ReturnLists ==
  UNION {[1..n -> ReturnFieldKinds] : n \in 0..MaxReturnFields}

DefaultReturns == <<2>>

Contents ==
  [objs : 0..MaxObjects, twice : BOOLEAN, parent : BOOLEAN, gone : BOOLEAN,
   union : BOOLEAN, sub : BOOLEAN, returns : {DefaultReturns}]
  \cup
  [objs : {1}, twice : {FALSE}, parent : {FALSE}, gone : {FALSE},
   union : {FALSE}, sub : {FALSE}, returns : ReturnLists]

Objs(c) == [i \in 1..c.objs |-> ObjName(i)]

\* the document of the schema c in the GitHub format
GitHubDoc(c) ==
  LET gone == IF c.gone
              THEN <<GFieldDef(<<"g", "o", "n", "e">>, <<"Missing">>, <<>>,
                               <<>>, <<>>)>>
              ELSE <<>>
      node == <<GFieldDef(<<"n", "o", "d", "e">>, <<"Node">>,
                          <<GArg("id", <<"ID", "!">>)>>, <<>>, <<>>)>>
      search == IF c.union
                THEN <<GFieldDef(<<"s", "e", "a", "r", "c", "h">>,
                                 <<"[", "Result", "!", "]", "!">>, <<>>,
                                 <<>>, <<>>)>>
                ELSE <<>>
      input == GFieldDef(<<"i", "n", "p", "u", "t">>, <<"AddTInput", "!">>,
                         <<>>, <<>>, <<>>)
      addT == GFieldDef(<<"a", "d", "d", "T">>, <<"AddTPayload">>, <<>>,
                        <<input>>,
                        [i \in 1..Len(c.returns) |-> ReturnField(c.returns[i])])
      impl == IF c.twice THEN <<"Node", "Node">> ELSE <<"Node">>
      id == GField("id", <<"ID", "!">>, <<>>)
      objects == [i \in 1..c.objs |->
                    GTypeDef(ObjName(i), <<GField("t", <<"T", "!">>, <<>>)>>,
                             impl)]
      interfaces ==
        <<GTypeDef("Node", <<id, GField("parent", <<"Node">>, <<>>)>>,
                   IF c.parent THEN <<"Entity">> ELSE <<>>)>>
        \o (IF c.parent THEN <<GTypeDef("Entity", <<id>>, <<>>)>> ELSE <<>>)
  IN  Document(TRUE, "", "", "", TRUE, <<>>,
               gone \o node \o search,
               <<addT>>,
               objects
                 \o <<GTypeDef("T", <<GField("name", <<"String">>, <<>>)>>, <<>>),
                      GTypeDef("AddTPayload", <<GField("t", <<"T">>, <<>>)>>,
                               <<>>)>>,
               interfaces,
               IF c.union THEN <<GUnion("Result", <<"T">>)>> ELSE <<>>)

\* the document of the schema c in the Introspection format
IntroDoc(c) ==
  LET id == IField("id", NonNull(Named("ID")), <<>>)
      query ==
        FullType("OBJECT", "Query",
          (IF c.gone THEN <<IField("gone", Named("Missing"), <<>>)>> ELSE <<>>)
          \o <<IField("node", Named("Node"),
                      <<IArg("id", NonNull(Named("ID")))>>)>>
          \o (IF c.union
              THEN <<IField("search",
                            NonNull(ListOf(NonNull(Named("Result")))), <<>>)>>
              ELSE <<>>),
          <<>>, <<>>)
      node == FullType("INTERFACE", "Node",
                       <<id, IField("parent", Named("Node"), <<>>)>>,
                       IF c.parent THEN <<"Entity">> ELSE <<>>, Objs(c))
      entity == FullType("INTERFACE", "Entity", <<id>>, <<>>, Objs(c))
      objects == [i \in 1..c.objs |->
                    FullType("OBJECT", ObjName(i),
                             <<IField("t", NonNull(Named("T")), <<>>)>>,
                             <<"Node">>, <<>>)]
      result == FullType("UNION", "Result", <<>>, <<>>, <<"T">>)
      target == FullType("OBJECT", "T",
                         <<IField("name", Named("String"), <<>>)>>, <<>>, <<>>)
      mutation ==
        FullType("OBJECT", "Mutation",
                 <<IField("addT", Named("AddTPayload"),
                          <<IArg("input", NonNull(Named("AddTInput")))>>)>>,
                 <<>>, <<>>)
      payload == FullType("OBJECT", "AddTPayload",
                          <<IField("t", Named("T"), <<>>)>>, <<>>, <<>>)
      subscription == FullType("OBJECT", "Subscription",
                               <<IField("tAdded", Named("T"), <<>>)>>,
                               <<>>, <<>>)
      meta == FullType("OBJECT", "__Schema",
                       <<IField("queryType", NonNull(Named("__Type")), <<>>)>>,
                       <<>>, <<>>)
  IN  Document(TRUE, "Query", "Mutation",
               IF c.sub THEN "Subscription" ELSE "", FALSE,
               <<query, node>>
                 \o (IF c.parent THEN <<entity>> ELSE <<>>)
                 \o objects
                 \o (IF c.union THEN <<result>> ELSE <<>>)
                 \o <<target, mutation, payload>>
                 \o (IF c.sub THEN <<subscription>> ELSE <<>>)
                 \o <<meta, FullType("SCALAR", "String", <<>>, <<>>, <<>>)>>,
               <<>>, <<>>, <<>>, <<>>, <<>>)

\* {"data": {"__schema": {"queryType": {"name": "Query"}, "types": []}}}
IntroEmptyTypes ==
  Document(TRUE, "Query", "", "", FALSE, <<>>, <<>>, <<>>, <<>>, <<>>, <<>>)

BaseContent ==
  [objs |-> 1, twice |-> FALSE, parent |-> FALSE, gone |-> FALSE,
   union |-> FALSE, sub |-> FALSE, returns |-> DefaultReturns]

\* GitHub documents that carry one list only
QueriesOnly ==
  Document(TRUE, "", "", "", TRUE, <<>>, GitHubDoc(BaseContent).Queries,
           <<>>, <<>>, <<>>, <<>>)
ObjectsOnly ==
  Document(TRUE, "", "", "", TRUE, <<>>, <<>>, <<>>,
           GitHubDoc(BaseContent).Objects, <<>>, <<>>)
MutationsOnly ==
  Document(TRUE, "", "", "", TRUE, <<>>, <<>>,
           GitHubDoc(BaseContent).Mutations, <<>>, <<>>, <<>>)

Documents ==
  {NotJSON, EmptyObject, IntroEmptyTypes, QueriesOnly, ObjectsOnly,
   MutationsOnly}
  \cup {GitHubDoc(c) : c \in Contents} \cup {IntroDoc(c) : c \in Contents}

\* ------------------------------------------------ src/main.go: the Graph
Node(name, kind, fields, implements, possibleTypes) ==
  [Name |-> name, Kind |-> kind, Fields |-> fields, Implements |-> implements,
   PossibleTypes |-> possibleTypes]
Edge(name, target, arguments) ==
  [Name |-> name, Target |-> target, Arguments |-> arguments]
Arg(name, type) == [Name |-> name, Type |-> type]

\* graph.Nodes after "graph.Nodes[x.Name] = x" for the nodes x of list in
\* order: the last node of a name is the one that stays
PutAll(nodes, list) ==
  LET names == {list[i].Name : i \in 1..Len(list)}
      last(n) == CHOOSE i \in 1..Len(list) :
                   /\ list[i].Name = n
                   /\ \A j \in (i + 1)..Len(list) : list[j].Name # n
  IN  [n \in DOMAIN nodes \cup names |->
         IF n \in names THEN list[last(n)] ELSE nodes[n]]

\* strings.HasPrefix(t.Name, "__"), on the type names of the documents
HasUnderscores(name) == name \in {"__Schema", "__Type"}

\* the Edge buildFromIntrospection makes of a field
introspectionEdge(f) ==
  Edge(f.Name, unwrapType(f.Type),
       [i \in 1..Len(f.Args) |-> Arg(f.Args[i].Name, unwrapType(f.Args[i].Type))])

introspectionNode(t) ==
  Node(t.Name, t.Kind,
       LET kept == SelectSeq(t.Fields, LAMBDA f : unwrapType(f.Type) # "")
       IN  [i \in 1..Len(kept) |-> introspectionEdge(kept[i])],
       t.Interfaces, t.PossibleTypes)

\* the nodes of the types whose name does not start with "__"
introspectionNodes(d) ==
  LET kept == SelectSeq(d.Types, LAMBDA t : ~HasUnderscores(t.Name))
  IN  [i \in 1..Len(kept) |-> introspectionNode(kept[i])]

buildFromIntrospection(d, includeMutations) ==
  [Nodes |-> PutAll(<<>>, introspectionNodes(d)),
   Roots |-> (IF d.QueryType # "" THEN <<d.QueryType>> ELSE <<>>)
             \o (IF includeMutations /\ d.MutationType # ""
                 THEN <<d.MutationType>> ELSE <<>>)]

convertGitHubArgs(args) ==
  [i \in 1..Len(args) |-> Arg(args[i].Name, cleanTypeName(args[i].Type))]

convertGitHubTypeDef(obj, kind) ==
  Node(obj.Name, kind,
       [i \in 1..Len(obj.Fields) |->
          Edge(obj.Fields[i].Name, cleanTypeName(obj.Fields[i].Type),
               convertGitHubArgs(obj.Fields[i].Arguments))],
       obj.Implements, <<>>)

convertGitHubFieldDef(f) ==
  Edge(Str(f.Name), cleanTypeName(f.Type), convertGitHubArgs(f.Args))

\* the return field convertGitHubMutation stops at
mutationMatch(m, rf) ==
  \/ Contains(ToLower(rf.Name), ToLower(m.Name))
  \/ /\ rf.Kind = "objects"
     /\ ~HasSuffix(rf.Name, <<"E", "d", "g", "e">>)
     /\ ~Contains(rf.Name, <<"C", "o", "n", "n", "e", "c", "t", "i", "o", "n">>)

convertGitHubMutation(m) ==
  LET hits == SelectSeq(m.ReturnFields, LAMBDA rf : mutationMatch(m, rf))
      target == IF hits # <<>> THEN hits[1].Type ELSE m.Type
  IN  Edge(Str(m.Name), cleanTypeName(target),
           [i \in 1..Len(m.InputFields) |->
              Arg(Str(m.InputFields[i].Name),
                  cleanTypeName(m.InputFields[i].Type))])

\* the sequences that list every element of S once
Orders(S) ==
  {o \in [1..Cardinality(S) -> S] : \A i, j \in DOMAIN o : o[i] = o[j] => i = j}

\* The orders in which "for _, node := range graph.Nodes" can visit the
\* nodes that implement something (Go leaves the order of a map range
\* unspecified); the iterations of the other nodes do nothing.
RangeOrders(nodes) ==
  Orders({n \in DOMAIN nodes : nodes[n].Implements # <<>>})

\* what the range loop visiting the nodes in this order appends to the
\* PossibleTypes of the node iface
RECURSIVE appendedTo(_, _, _)
appendedTo(nodes, order, iface) ==
  IF order = <<>> THEN <<>>
  ELSE LET hits == SelectSeq(nodes[Head(order)].Implements,
                             LAMBDA x : x = iface)
       IN  [i \in 1..Len(hits) |-> Head(order)]
           \o appendedTo(nodes, Tail(order), iface)

unionNodes(d) ==
  [i \in 1..Len(d.Unions) |->
     Node(d.Unions[i].Name, "UNION", <<>>, <<>>, d.Unions[i].PossibleTypes)]
objectNodes(d) ==
  [i \in 1..Len(d.Objects) |-> convertGitHubTypeDef(d.Objects[i], "OBJECT")]
interfaceNodes(d) ==
  [i \in 1..Len(d.Interfaces) |->
     convertGitHubTypeDef(d.Interfaces[i], "INTERFACE")]

\* graph.Nodes before the range loop (the documents have no enums, scalars
\* or inputObjects)
gitHubNodes(d) ==
  PutAll(PutAll(PutAll(<<>>, objectNodes(d)), interfaceNodes(d)),
         unionNodes(d))

buildFromGitHubFormat(d, includeMutations, order) ==
  LET nodes == gitHubNodes(d)
      inverted == [n \in DOMAIN nodes |->
                     [nodes[n] EXCEPT !.PossibleTypes =
                        @ \o appendedTo(nodes, order, n)]]
      queryNode == Node("Query", "OBJECT",
                        [i \in 1..Len(d.Queries) |->
                           convertGitHubFieldDef(d.Queries[i])], <<>>, <<>>)
      mutNode == Node("Mutation", "OBJECT",
                      [i \in 1..Len(d.Mutations) |->
                         convertGitHubMutation(d.Mutations[i])], <<>>, <<>>)
      withQuery == [n \in DOMAIN inverted \cup {"Query"} |->
                      IF n = "Query" THEN queryNode ELSE inverted[n]]
  IN  IF includeMutations /\ Len(d.Mutations) > 0
      THEN [Nodes |-> [n \in DOMAIN withQuery \cup {"Mutation"} |->
                         IF n = "Mutation" THEN mutNode ELSE withQuery[n]],
            Roots |-> <<"Query", "Mutation">>]
      ELSE [Nodes |-> withQuery, Roots |-> <<"Query">>]

\* parseSchema: [graph, format, err]
ParseResult(g, name, e) == [graph |-> g, format |-> name, err |-> e]

parseSchema(d, includeMutations, order) ==
  IF d.Valid /\ ~d.TypesNil
  THEN ParseResult(buildFromIntrospection(d, includeMutations),
                   "GraphQL Introspection", "")
  ELSE IF d.Valid /\ (Len(d.Queries) > 0 \/ Len(d.Objects) > 0)
  THEN ParseResult(buildFromGitHubFormat(d, includeMutations, order),
                   "GitHub Schema Format", "")
  ELSE ParseResult(NoGraph, "", "unknown schema format")

\* -------------------------------------------- src/main.go: findPaths / dfs
isScalar(g, name) ==
  IF name \in {"String", "Int", "Float", "Boolean", "ID"} THEN TRUE
  ELSE IF name \in DOMAIN g.Nodes
  THEN g.Nodes[name].Kind = "SCALAR" \/ g.Nodes[name].Kind = "ENUM"
  ELSE FALSE

\* strings.Join(args, ", ") of the "%s: %s" of the arguments from the i-th on
RECURSIVE joinArgs(_, _)
joinArgs(arguments, i) ==
  IF i > Len(arguments) THEN ""
  ELSE arguments[i].Name \o ": " \o arguments[i].Type
       \o (IF i < Len(arguments) THEN ", " ELSE "")
       \o joinArgs(arguments, i + 1)

fieldStep(field) ==
  IF Len(field.Arguments) > 0
  THEN field.Name \o "(" \o joinArgs(field.Arguments, 1) \o ")"
  ELSE field.Name

\* a limit test that lets one more path in
limitReachedLate(q, results) == q.limit > 0 /\ Len(results) > q.limit

\* "limit > 0 && len(*results) >= limit"
limitReached(q, results) == q.limit > 0 /\ Len(results) >= q.limit

\* The arguments that do not change along the recursion are the record
\* q = [graph, target, maxDepth, limit]. visited holds the names whose map
\* entry is true: dfs sets the entry of current and its deferred function
\* clears it on every return, so the callee sees the caller's set plus
\* current and the caller's set is as before when the callee has returned.
\* The loops yield [results, returned]: returned when a "return" left dfs.
RECURSIVE dfs(_, _, _, _, _, _), dfsFields(_, _, _, _, _, _, _),
          dfsPossibleTypes(_, _, _, _, _, _, _)
dfs(q, current, path, visited, results, depth) ==
  IF depth > q.maxDepth \/ limitReached(q, results) \/ current \in visited
  THEN results
  ELSE IF current \notin DOMAIN q.graph.Nodes THEN results
  ELSE LET node == q.graph.Nodes[current]
           seen == visited \cup {current}
           f == dfsFields(q, node, 1, path, seen, results, depth)
       IN  IF f.returned THEN f.results
           ELSE dfsPossibleTypes(q, node, 1, path, seen, f.results,
                                 depth).results

dfsFields(q, node, i, path, visited, results, depth) ==
  IF i > Len(node.Fields) THEN [results |-> results, returned |-> FALSE]
  ELSE LET field == node.Fields[i]
           newPath == Append(path, fieldStep(field))
       IN  IF isScalar(q.graph, field.Target) /\ field.Target # q.target
           THEN dfsFields(q, node, i + 1, path, visited, results, depth)
           ELSE IF field.Target = q.target
           THEN IF limitReached(q, results)
                THEN [results |-> results, returned |-> TRUE]
                ELSE LET r == Append(results, Append(newPath, q.target))
                     IN  IF limitReached(q, r)
                         THEN [results |-> r, returned |-> TRUE]
                         ELSE dfsFields(q, node, i + 1, path, visited, r,
                                        depth)
           ELSE dfsFields(q, node, i + 1, path, visited,
                          dfs(q, field.Target, newPath, visited, results,
                              depth + 1),
                          depth)

dfsPossibleTypes(q, node, i, path, visited, results, depth) ==
  IF i > Len(node.PossibleTypes)
  THEN [results |-> results, returned |-> FALSE]
  ELSE LET subType == node.PossibleTypes[i]
           newPath == Append(path, subType)
       IN  IF subType = q.target
           THEN IF limitReached(q, results)
                THEN [results |-> results, returned |-> TRUE]
                ELSE LET r == Append(results, newPath)
                     IN  IF limitReached(q, r)
                         THEN [results |-> r, returned |-> TRUE]
                         ELSE dfsPossibleTypes(q, node, i + 1, path, visited,
                                               r, depth)
           ELSE dfsPossibleTypes(q, node, i + 1, path, visited,
                                 dfs(q, subType, newPath, visited, results,
                                     depth),
                                 depth)

\* the loop of findPaths over graph.Roots from the i-th root on
RECURSIVE findPathsFrom(_, _, _)
findPathsFrom(q, i, results) ==
  IF i > Len(q.graph.Roots) THEN results
  ELSE LET root == q.graph.Roots[i]
           r == dfs(q, root, <<root>>, {}, results, 0)
       IN  IF limitReached(q, r) THEN r ELSE findPathsFrom(q, i + 1, r)

findPaths(g, target, depthLimit, limit) ==
  findPathsFrom([graph |-> g, target |-> target, maxDepth |-> depthLimit,
                 limit |-> limit], 1, <<>>)

\* ------------------------------- src/unnamed/part_000:1-242, the traverser
\* schema.Load is not among the sources. It is the spec's SchemaNormalizer
\* (spec.md 4.1) storing into a schema.Schema, whose Type has the fields
\* Name, Kind and Fields: Introspection when the types list is not empty,
\* else GitHub when queries, objects or mutations is not empty, else an
\* error; the types are the nodes of the graph, every root included.
LoadedType(node) ==
  [Name |-> node.Name, Kind |-> node.Kind,
   Fields |-> [i \in 1..Len(node.Fields) |->
                 Field(node.Fields[i].Name, node.Fields[i].Target,
                       node.Fields[i].Arguments)]]

Schema(g, queryType, mutationType) ==
  [Types |-> [n \in DOMAIN g.Nodes |-> LoadedType(g.Nodes[n])],
   QueryType |-> queryType, MutationType |-> mutationType]

Load(d) ==
  IF ~d.Valid THEN [scm |-> NoGraph, err |-> "MalformedInput"]
  ELSE IF Len(d.Types) > 0
  THEN [scm |-> Schema(buildFromIntrospection(d, TRUE), d.QueryType,
                       d.MutationType),
        err |-> ""]
  ELSE IF Len(d.Queries) > 0 \/ Len(d.Objects) > 0 \/ Len(d.Mutations) > 0
  THEN [scm |-> Schema(buildFromGitHubFormat(d, TRUE, <<>>), "Query",
                       "Mutation"),
        err |-> ""]
  ELSE [scm |-> NoGraph, err |-> "UnrecognizedFormat"]

\* the EntryPoints GetEntryPoints appends for the fields of the type name
entriesOf(scm, name) ==
  IF name \in DOMAIN scm.Types
  THEN [i \in 1..Len(scm.Types[name].Fields) |->
          [Name |-> scm.Types[name].Fields[i].Name,
           Type |-> scm.Types[name].Fields[i].Type,
           Args |-> scm.Types[name].Fields[i].Args]]
  ELSE <<>>

\* Schema.GetEntryPoints
GetEntryPoints(scm, includeMutations) ==
  entriesOf(scm, scm.QueryType)
  \o (IF includeMutations THEN entriesOf(scm, scm.MutationType) ELSE <<>>)


\* ------------------- src/unnamed/part_000:244-956, the older src/main.go
\* Its cleanTypeName and unwrapType are those of src/main.go.
isScalarType(kind) == kind \in {"scalars", "SCALAR", "enums", "ENUM"}

buildFromIntrospectionOld(d, includeMutations) ==
  [Nodes |-> PutAll(<<>>, introspectionNodes(d)),
   Roots |-> (IF d.QueryType # "" THEN <<d.QueryType>> ELSE <<>>)
             \o (IF includeMutations /\ d.MutationType # ""
                 THEN <<d.MutationType>> ELSE <<>>)
             \o (IF d.SubscriptionType # ""
                 THEN <<d.SubscriptionType>> ELSE <<>>)]

convertGitHubObject(obj) == convertGitHubTypeDef(obj, "OBJECT")

\* convertGitHubInterface leaves Node.Implements nil
convertGitHubInterface(iface) ==
  [convertGitHubTypeDef(iface, "INTERFACE") EXCEPT !.Implements = <<>>]

convertGitHubTopLevelField(f) ==
  Edge(Str(f.Name), cleanTypeName(f.Type), convertGitHubArgs(f.Args))

convertGitHubMutationOld(m) ==
  LET nonScalar == SelectSeq(m.ReturnFields,
                             LAMBDA rf : ~isScalarType(rf.Kind))
      first == IF nonScalar # <<>> THEN nonScalar[1].Type ELSE <<>>
      chosen == IF first = <<>> /\ Len(m.ReturnFields) > 0
                THEN m.ReturnFields[1].Type ELSE first
      target == IF cleanTypeName(chosen) = "" THEN cleanTypeName(m.Type)
                ELSE cleanTypeName(chosen)
  IN  Edge(Str(m.Name), target,
           [i \in 1..Len(m.InputFields) |->
              Arg(Str(m.InputFields[i].Name),
                  cleanTypeName(m.InputFields[i].Type))])

buildFromGitHubFormatOld(d, includeMutations) ==
  LET nodes ==
        PutAll(PutAll(PutAll(<<>>,
                             [i \in 1..Len(d.Objects) |->
                                convertGitHubObject(d.Objects[i])]),
                      [i \in 1..Len(d.Interfaces) |->
                         convertGitHubInterface(d.Interfaces[i])]),
               unionNodes(d))
      queryNode == Node("Query", "OBJECT",
                        [i \in 1..Len(d.Queries) |->
                           convertGitHubTopLevelField(d.Queries[i])],
                        <<>>, <<>>)
      mutationNode == Node("Mutation", "OBJECT",
                           [i \in 1..Len(d.Mutations) |->
                              convertGitHubMutationOld(d.Mutations[i])],
                           <<>>, <<>>)
      withQuery == IF Len(d.Queries) > 0
                   THEN [n \in DOMAIN nodes \cup {"Query"} |->
                           IF n = "Query" THEN queryNode ELSE nodes[n]]
                   ELSE nodes
      withMutation == IF includeMutations /\ Len(d.Mutations) > 0
                      THEN [n \in DOMAIN withQuery \cup {"Mutation"} |->
                              IF n = "Mutation" THEN mutationNode
                              ELSE withQuery[n]]
                      ELSE withQuery
  IN  [Nodes |-> withMutation,
       Roots |-> (IF Len(d.Queries) > 0 THEN <<"Query">> ELSE <<>>)
                 \o (IF includeMutations /\ Len(d.Mutations) > 0
                     THEN <<"Mutation">> ELSE <<>>)]

parseSchemaOld(d, includeMutations) ==
  IF d.Valid /\ ~d.TypesNil
  THEN ParseResult(buildFromIntrospectionOld(d, includeMutations),
                   "GraphQL Introspection", "")
  ELSE IF d.Valid /\ (Len(d.Queries) > 0 \/ Len(d.Objects) > 0
                      \/ Len(d.Mutations) > 0)
  THEN ParseResult(buildFromGitHubFormatOld(d, includeMutations),
                   "GitHub Schema Format", "")
  ELSE ParseResult(NoGraph, "",
         "unknown schema format (expected introspection or GitHub format)")

\* ------------------------------------------------ the runs of the programs
\* largest -limit given on the command line
MaxLimit == 1

Programs == {"main.go", "part_000", "traverser"}

\* -type names the type T of the documents or a type none of them has
Options ==
  [type : {"T", "Nope"}, maxDepth : 0..MaxCliDepth, limit : 0..MaxLimit,
   mutations : BOOLEAN]

\* os.Exit(code); a return from main is the status 0
Exit(code) == exitCode' = code /\ cliPc' = "exited"

\* the library variables while src/main.go runs, and before the traverser
\* program calls FindPaths
LibraryOff ==
  /\ schema = <<>> /\ entryPoints = <<>> /\ targetType = "" /\ maxDepth = 0
  /\ pc = "off"
  /\ heap = <<>> /\ stack = <<>> /\ epIdx = 1 /\ seqPaths = <<>>
  /\ workers = 0 /\ parPc = "idle" /\ seedIdx = 1 /\ seedRead = <<>>
  /\ jobs = <<>> /\ closed = FALSE /\ pool = EmptyBag /\ mutex = "free"
  /\ parPaths = <<>> /\ produced = {} /\ received = EmptyBag

libVars == <<inputVars, seqVars, parVars, pc>>

\* src/main.go: "graph, format, err := parseSchema(data, *includeMutations)"
MainParseSchema ==
  /\ prog = "main.go" /\ cliPc = "start"
  /\ \E order \in RangeOrders(gitHubNodes(data)) :
        LET r == parseSchema(data, opts.mutations, order)
        IN  graph' = r.graph /\ format' = r.format /\ err' = r.err
  /\ cliPc' = "parsed"
  /\ UNCHANGED <<frontVars, libVars, prog, data, opts, paths, exitCode>>

\* "if err != nil { ...; os.Exit(1) }"
MainParseError ==
  /\ prog = "main.go" /\ cliPc = "parsed" /\ err # ""
  /\ Exit(1)
  /\ UNCHANGED <<frontVars, libVars, prog, data, opts, graph, format, err, paths>>

\* "if !exists { ...; os.Exit(1) }"
MainTargetNotFound ==
  /\ prog = "main.go" /\ cliPc = "parsed" /\ err = ""
  /\ opts.type \notin DOMAIN graph.Nodes
  /\ Exit(1)
  /\ UNCHANGED <<frontVars, libVars, prog, data, opts, graph, format, err, paths>>

\* "paths := findPaths(graph, *targetType, *maxDepth, *limit)"
MainFindPaths ==
  /\ prog = "main.go" /\ cliPc = "parsed" /\ err = ""
  /\ opts.type \in DOMAIN graph.Nodes
  /\ paths' = findPaths(graph, opts.type, opts.maxDepth, opts.limit)
  /\ cliPc' = "searched"
  /\ UNCHANGED <<frontVars, libVars, prog, data, opts, graph, format, err,
                 exitCode>>

\* "if len(paths) == 0 { ...; os.Exit(2) }"
MainNoPaths ==
  /\ prog = "main.go" /\ cliPc = "searched" /\ Len(paths) = 0
  /\ Exit(2)
  /\ UNCHANGED <<frontVars, libVars, prog, data, opts, graph, format, err, paths>>

\* the paths are printed and main returns
MainPrintPaths ==
  /\ prog = "main.go" /\ cliPc = "searched" /\ Len(paths) > 0
  /\ Exit(0)
  /\ UNCHANGED <<frontVars, libVars, prog, data, opts, graph, format, err, paths>>

\* part_000:462: "graph, format, err := parseSchema(data, *includeMutations)"
\* of the older src/main.go, which is followed up to its test of the target
OldParseSchema ==
  /\ prog = "part_000" /\ cliPc = "start"
  /\ graph' = parseSchemaOld(data, opts.mutations).graph
  /\ format' = parseSchemaOld(data, opts.mutations).format
  /\ err' = parseSchemaOld(data, opts.mutations).err
  /\ cliPc' = "parsed"
  /\ UNCHANGED <<frontVars, libVars, prog, data, opts, paths, exitCode>>

\* "if err != nil { ...; os.Exit(1) }"
OldParseError ==
  /\ prog = "part_000" /\ cliPc = "parsed" /\ err # ""
  /\ Exit(1)
  /\ UNCHANGED <<frontVars, libVars, prog, data, opts, graph, format, err, paths>>

\* "if _, exists := graph.Nodes[*targetType]; !exists { ...; os.Exit(1) }"
OldTargetNotFound ==
  /\ prog = "part_000" /\ cliPc = "parsed" /\ err = ""
  /\ opts.type \notin DOMAIN graph.Nodes
  /\ Exit(1)
  /\ UNCHANGED <<frontVars, libVars, prog, data, opts, graph, format, err, paths>>

\* part_000: "scm, err := schema.Load(*schemaFile)"; graph holds scm
TravLoad ==
  /\ prog = "traverser" /\ cliPc = "start"
  /\ graph' = Load(data).scm /\ err' = Load(data).err
  /\ UNCHANGED format
  /\ cliPc' = "parsed"
  /\ UNCHANGED <<frontVars, libVars, prog, data, opts, paths, exitCode>>

\* "if err != nil { log.Fatalf(...) }": log.Fatalf ends with os.Exit(1)
TravLoadError ==
  /\ prog = "traverser" /\ cliPc = "parsed" /\ err # ""
  /\ Exit(1)
  /\ UNCHANGED <<frontVars, libVars, prog, data, opts, graph, format, err, paths>>

\* "if !scm.TypeExists(*targetType) { ...; os.Exit(1) }"
TravTargetNotFound ==
  /\ prog = "traverser" /\ cliPc = "parsed" /\ err = ""
  /\ opts.type \notin DOMAIN graph.Types
  /\ Exit(1)
  /\ UNCHANGED <<frontVars, libVars, prog, data, opts, graph, format, err, paths>>

\* "if len(entryPoints) == 0 { log.Fatal(...) }"
TravNoEntryPoints ==
  /\ prog = "traverser" /\ cliPc = "parsed" /\ err = ""
  /\ opts.type \in DOMAIN graph.Types
  /\ Len(GetEntryPoints(graph, opts.mutations)) = 0
  /\ Exit(1)
  /\ UNCHANGED <<frontVars, libVars, prog, data, opts, graph, format, err, paths>>

\* "st := traverser.NewSequential(scm, *maxDepth)" and the call of
\* st.FindPaths(entryPoints, *targetType), with -parallel 0 (the default);
\* the call runs as the actions of Sequential.FindPaths
TravFindPaths ==
  /\ prog = "traverser" /\ cliPc = "parsed" /\ err = ""
  /\ opts.type \in DOMAIN graph.Types
  /\ Len(GetEntryPoints(graph, opts.mutations)) > 0
  /\ schema' = [n \in DOMAIN graph.Types |-> graph.Types[n].Fields]
  /\ entryPoints' = GetEntryPoints(graph, opts.mutations)
  /\ targetType' = opts.type
  /\ maxDepth' = opts.maxDepth
  /\ pc' = "seq"
  /\ cliPc' = "searching"
  /\ UNCHANGED <<frontVars, seqVars, parVars, prog, data, opts, graph, format, err,
                 paths, exitCode>>

\* the paths FindPaths has returned, each as the sequence of its segments
TravReturned == [i \in 1..Len(seqPaths) |-> SeqSegments(i)]

\* "if len(paths) == 0 { ...; os.Exit(0) }"
TravNoPaths ==
  /\ prog = "traverser" /\ cliPc = "searching" /\ pc = "seqDone"
  /\ Len(seqPaths) = 0
  /\ paths' = TravReturned
  /\ Exit(0)
  /\ UNCHANGED <<frontVars, libVars, prog, data, opts, graph, format, err>>

\* printPaths, and main returns
TravPrintPaths ==
  /\ prog = "traverser" /\ cliPc = "searching" /\ pc = "seqDone"
  /\ Len(seqPaths) > 0
  /\ paths' = TravReturned
  /\ Exit(0)
  /\ UNCHANGED <<frontVars, libVars, prog, data, opts, graph, format, err>>

CliInit ==
  /\ LibraryOff /\ GenOff /\ UiOff
  /\ prog \in Programs
  /\ data \in Documents
  /\ opts \in Options
  /\ prog # "main.go" => opts.limit = 0
  /\ graph = NoGraph /\ format = "" /\ err = "" /\ paths = <<>>
  /\ exitCode = 0 - 1
  /\ cliPc = "start"

CliNext ==
  \/ MainParseSchema
  \/ MainParseError
  \/ MainTargetNotFound
  \/ MainFindPaths
  \/ MainNoPaths
  \/ MainPrintPaths
  \/ OldParseSchema
  \/ OldParseError
  \/ OldTargetNotFound
  \/ TravLoad
  \/ TravLoadError
  \/ TravTargetNotFound
  \/ TravNoEntryPoints
  \/ TravFindPaths
  \/ SeqEntry
  \/ DfsReturn
  \/ DfsSkip
  \/ DfsRecord
  \/ DfsDescend
  \/ SeqReturn
  \/ TravNoPaths
  \/ TravPrintPaths

CliSpec == CliInit /\ [][CliNext]_vars

\* ---------------------------------------------- properties of the programs
\* the schemas whose document the program has read
ContentsRead == {c \in Contents : data \in {GitHubDoc(c), IntroDoc(c)}}

\* the program has ended after a search for the type T
SearchedForT == cliPc = "exited" /\ err = "" /\ opts.type = "T"

\* C11: a target that can be reached only as a member of a union (or an
\* interface) returned by a field is found. In the schemas with the field
\* search: [Result!]!, no object O and no mutation root, T is reached only
\* as the member of the union Result: a search for T of depth 2 or more
\* returns a path.
C11_PossibleTypesExplored ==
  \A c \in ContentsRead :
     (/\ SearchedForT
      /\ c.union /\ c.objs = 0 /\ ~opts.mutations
      /\ opts.maxDepth >= 2)
     => Len(paths) > 0

\* the paths src/main.go returns for the document and the flags of this run
\* when the range over graph.Nodes takes the order given
PathsWith(order) ==
  findPaths(parseSchema(data, opts.mutations, order).graph, opts.type,
            opts.maxDepth, opts.limit)

\* C12: the same bytes give the same list of paths in the same order: the
\* list src/main.go has returned is the list every run of it on the same
\* document with the same flags returns.
C12_SameBytesSamePaths ==
  (prog = "main.go" /\ cliPc = "searched")
  => \A order \in RangeOrders(gitHubNodes(data)) : paths = PathsWith(order)

\* C13: a field whose type no schema defines (and that is not the target)
\* ends its branch silently: both enumerators return, and no path they
\* return has a segment of that type.
C13_DanglingEndsBranch ==
  /\ SeqDone => \A p \in SeqResult :
                   \A k \in 1..Len(p) : p[k].Type # Dangling
  /\ ParDone => \A p \in ParResult :
                   \A k \in 1..Len(p) : p[k].Type # Dangling

\* parseSchema has returned
Parsed == prog \in {"main.go", "part_000"} /\ cliPc = "parsed"

\* C14: parseSchema takes a JSON document as Introspection exactly when its
\* list of types is not empty, otherwise as GitHub exactly when queries,
\* objects or mutations is not empty, and otherwise fails.
C14_FormatDetection ==
  (Parsed /\ data.Valid) =>
     /\ format = (IF Len(data.Types) > 0 THEN "GraphQL Introspection"
                  ELSE IF \/ Len(data.Queries) > 0
                          \/ Len(data.Objects) > 0
                          \/ Len(data.Mutations) > 0
                  THEN "GitHub Schema Format"
                  ELSE "")
     /\ (err # "") = (format = "")

\* the error parseSchema of the running program returns for the document d
ErrorFor(d) ==
  IF prog = "main.go" THEN parseSchema(d, opts.mutations, <<>>).err
  ELSE parseSchemaOld(d, opts.mutations).err

\* C15: the failure for bytes that are not JSON differs from the failure for
\* a JSON document of an unknown shape, and a failure returns no graph.
C15_DistinctFailures ==
  (Parsed /\ err # "") =>
     /\ graph = NoGraph
     /\ ~data.Valid => err # ErrorFor(EmptyObject)

\* the type syntax a TypeRef of an Introspection document stands for
RECURSIVE SyntaxOf(_)
SyntaxOf(t) ==
  IF t.Kind = "NON_NULL" THEN SyntaxOf(t.OfType) \o <<"!">>
  ELSE IF t.Kind = "LIST" THEN <<"[">> \o SyntaxOf(t.OfType) \o <<"]">>
  ELSE <<t.Name>>

\* the argument a of the graph carries the declared type with its markers
\* and is required exactly when that type ends in "!"
DeclaredAs(a, syntax) ==
  /\ a.Type = Str(syntax)
  /\ "Required" \in DOMAIN a
  /\ a.Required = (syntax[Len(syntax)] = "!")

\* C16: in the graph of either adapter every argument keeps its declared
\* type with the list and non-null markers and is required exactly when the
\* declared type ends in "!".
C16_ArgumentsKeepDeclaredType ==
  (Parsed /\ err = "") =>
     /\ (format = "GitHub Schema Format" /\ "Query" \in DOMAIN graph.Nodes) =>
           \A i \in 1..Len(data.Queries) :
              \A j \in 1..Len(data.Queries[i].Args) :
                 DeclaredAs(graph.Nodes["Query"].Fields[i].Arguments[j],
                            data.Queries[i].Args[j].Type)
     /\ format = "GraphQL Introspection" =>
           \A k \in 1..Len(data.Types) :
              data.Types[k].Name \in DOMAIN graph.Nodes =>
                 \A i \in 1..Len(data.Types[k].Fields) :
                    \A j \in 1..Len(data.Types[k].Fields[i].Args) :
                       DeclaredAs(
                         graph.Nodes[data.Types[k].Name].Fields[i].Arguments[j],
                         SyntaxOf(data.Types[k].Fields[i].Args[j].Type))

Range(seq) == {seq[i] : i \in 1..Len(seq)}

\* the objects of the document that list the interface name in "implements"
ImplementingObjects(name) ==
  {data.Objects[i].Name :
     i \in {k \in 1..Len(data.Objects) :
              name \in Range(data.Objects[k].Implements)}}

\* C17: after buildFromGitHubFormat every object is among the possibleTypes
\* of each interface it implements that is a node, and the possibleTypes of
\* an interface node are objects that implement it, each listed once.
C17_InterfacesInverted ==
  (Parsed /\ format = "GitHub Schema Format") =>
     /\ \A i \in 1..Len(data.Objects) :
           \A name \in Range(data.Objects[i].Implements) :
              name \in DOMAIN graph.Nodes =>
                 data.Objects[i].Name \in Range(graph.Nodes[name].PossibleTypes)
     /\ \A name \in DOMAIN graph.Nodes :
           graph.Nodes[name].Kind = "INTERFACE" =>
              LET members == graph.Nodes[name].PossibleTypes
              IN  /\ Range(members) \subseteq ImplementingObjects(name)
                  /\ \A j, k \in 1..Len(members) :
                        members[j] = members[k] => j = k

\* the type syntax without its markers
Bare(syntax) == Str(SelectSeq(syntax, LAMBDA x : x \notin {"!", "[", "]"}))

\* the target the resolution rule gives the mutation m
RuleTarget(m) ==
  LET qualifying ==
        SelectSeq(m.ReturnFields,
                  LAMBDA rf : rf.Kind \notin {"scalars", "enums", "SCALAR",
                                              "ENUM"})
  IN  IF qualifying # <<>> THEN Bare(qualifying[1].Type)
      ELSE IF m.ReturnFields # <<>> THEN Bare(m.ReturnFields[1].Type)
      ELSE Bare(m.Type)

\* C18: the target of a mutation is the type of its first return field that
\* is not a scalar or an enum, else the type of its first return field, else
\* its own declared type, without the markers.
C18_MutationTarget ==
  (Parsed /\ format = "GitHub Schema Format"
     /\ "Mutation" \in DOMAIN graph.Nodes) =>
     \A i \in 1..Len(data.Mutations) :
        graph.Nodes["Mutation"].Fields[i].Target = RuleTarget(data.Mutations[i])

\* the names of the Query type and of the Mutation type of the document
\* read ("" when it has no mutations)
QueryRoot == IF format = "GraphQL Introspection" THEN data.QueryType ELSE "Query"
MutationRoot ==
  IF format = "GraphQL Introspection" THEN data.MutationType
  ELSE IF Len(data.Mutations) > 0 THEN "Mutation" ELSE ""

\* the names of the top-level mutations of the document read
MutationNames ==
  {Str(data.Mutations[i].Name) : i \in 1..Len(data.Mutations)} \cup {"addT"}

\* C19: the roots of the graph are the Query type and then, exactly when
\* mutations were requested and the schema has them, the Mutation type, and
\* nothing else; without -mutations no returned path starts at a mutation.
C19_Roots ==
  /\ (Parsed /\ err = "") =>
        graph.Roots = <<QueryRoot>>
                      \o (IF opts.mutations /\ MutationRoot # ""
                          THEN <<MutationRoot>> ELSE <<>>)
  /\ (cliPc = "exited" /\ ~opts.mutations) =>
        \A i \in 1..Len(paths) :
           IF prog = "traverser" THEN paths[i][1].Name \notin MutationNames
           ELSE paths[i][1] = "Query"

\* the type named by -type is not in the schema the program has loaded
TargetUnknown ==
  IF prog = "traverser" THEN opts.type \notin DOMAIN graph.Types
  ELSE opts.type \notin DOMAIN graph.Nodes

\* the program has ended after a search that ran to its end
SearchCompleted ==
  /\ cliPc = "exited" /\ err = "" /\ ~TargetUnknown
  /\ prog = "traverser" => pc = "seqDone"

\* C20: a failure to load or parse the schema and an unknown target type
\* end the program with the hard-failure status 1, a search that finds
\* paths with 0, and a search that finds none with a third status.
C20_ExitStatus ==
  /\ (cliPc = "exited" /\ err # "") => exitCode = 1
  /\ (cliPc = "exited" /\ err = "" /\ TargetUnknown) => exitCode = 1
  /\ (SearchCompleted /\ Len(paths) > 0) => exitCode = 0
  /\ (SearchCompleted /\ Len(paths) = 0) => exitCode \notin {0, 1}

\* ------------------------------------------- the search of src/main.go
\* src/main.go has returned from findPaths
MainSearched ==
  /\ prog = "main.go" /\ err = ""
  /\ cliPc = "searched" \/ (cliPc = "exited" /\ ~TargetUnknown)

\* the paths of the same search without -limit
Unlimited == findPaths(graph, opts.type, opts.maxDepth, 0)

Min(a, b) == IF a <= b THEN a ELSE b

RECURSIVE StepsFrom(_, _, _, _, _)
StepsFrom(g, target, cur, p, i) ==
  IF i > Len(p) THEN 0
  ELSE LET fields == IF cur \in DOMAIN g.Nodes THEN g.Nodes[cur].Fields
                     ELSE <<>>
           hits == {k \in 1..Len(fields) : fieldStep(fields[k]) = p[i]}
       IN  IF hits # {}
           THEN LET f == fields[CHOOSE k \in hits : TRUE]
                IN  IF f.Target = target THEN 1
                    ELSE 1 + StepsFrom(g, target, f.Target, p, i + 1)
           ELSE 1 + StepsFrom(g, target, p[i], p, i + 1)

\* the steps of a returned path after its root
Steps(p) == StepsFrom(graph, opts.type, p[1], p, 2)

\* C27: no path findPaths returns has more than maxDepth traversal steps
\* (field steps and possible-type steps) after the root.
C27_StepsWithinMaxDepth ==
  MainSearched => \A i \in 1..Len(paths) : Steps(paths[i]) <= opts.maxDepth

\* ------------------------------------ the enumerators of the traverser
\* the Type values of the segments of p are pairwise distinct
TypesDistinct(p) ==
  \A j, k \in 1..Len(p) : j # k => p[j].Type # p[k].Type

\* C28: no path returned by Sequential.FindPaths or Parallel.FindPaths
\* visits a type twice.
C28_NoTypeTwice ==
  /\ SeqDone => \A p \in SeqResult : TypesDistinct(p)
  /\ ParDone => \A p \in ParResult : TypesDistinct(p)

\* ======================================================================
\* internal/generator/query.go: Generator.generateOne on one path
\* ======================================================================
\* segments of the longest path
MaxSegments == 2
\* fields of the terminal type besides "self" and "items"
MaxOwnFields == 4
\* argument-less fields of the node type of a connection
MaxNodeFields == 3

\* ---------------------------------------------------------------- inputs
\* schema.Arg. A declared type is the sequence of its pieces; Required is
\* true exactly of the declared types that end in "!".
SchemaArg(name, type) ==
  [Name |-> name, Type |-> type, Required |-> HasSuffix(type, <<"!">>)]

ArgTypes ==
  { <<"ID", "!">>, <<"ID">>, <<"Int">>, <<"String", "!">>, <<"Float">>,
    <<"Boolean", "!">>, <<"[", "String", "!", "]", "!">>,
    <<"[", "ID", "!", "]">>, <<"[", "T", "Input", "!", "]", "!">>,
    <<"T", "Input", "!">> }

ArgLists ==
  {<<>>} \cup {<<SchemaArg("id", t)>> : t \in ArgTypes}
         \cup {<<SchemaArg("id", <<"ID", "!">>), SchemaArg("first", <<"Int">>)>>}

\* schema.PathSegment and schema.GraphQLPath
PathSegment(name, type, args) == [Name |-> name, Type |-> type, Args |-> args]
GraphQLPath(segments) == [Segments |-> segments, Depth |-> Len(segments)]

\* the segments before the last are fields "next" or "alt" of a type P,
\* with one of a few argument lists; the last segment has the terminal
\* type and any of the argument lists
InnerArgLists ==
  { <<>>, <<SchemaArg("id", <<"ID", "!">>)>>, <<SchemaArg("id", <<"Int">>)>>,
    <<SchemaArg("id", <<"ID", "!">>), SchemaArg("first", <<"Int">>)>> }
InnerSegments(n) ==
  [1..n -> {PathSegment(name, <<"P">>, args) :
               name \in {"next", "alt"}, args \in InnerArgLists}]
TerminalTypes == {<<"T">>, <<"Gone">>}
LastSegments ==
  {PathSegment(name, t, args) :
      name \in {"next", "alt"}, t \in TerminalTypes, args \in ArgLists}
GraphQLPaths ==
  UNION { {GraphQLPath(inner \o <<last>>) :
              inner \in InnerSegments(n), last \in LastSegments}
          : n \in 0..(MaxSegments - 1) }

\* schema.Type
SchemaType(name, kind, fields) == [Name |-> name, Kind |-> kind, Fields |-> fields]

\* The schemas: the terminal type T has, in this order, the field self: T
\* (when c.self), the field items of a connection type (when c.conn is not
\* "none") and c.own scalar fields; TConnection leads by edges to TEdge and
\* TEdge by node to N, unless c.conn says which of them is missing; N has
\* one field with an argument and c.node fields without.
ConnKinds ==
  {"none", "full", "wrapped", "noEdges", "noEdgeType", "noNode", "noNodeType"}
LeafSchemas ==
  [own : 0..MaxOwnFields, self : BOOLEAN, conn : ConnKinds,
   node : 0..MaxNodeFields]
OwnFields(c) ==
  (IF c.self THEN <<Field("self", <<"T">>, <<>>)>> ELSE <<>>)
  \o (IF c.conn = "none" THEN <<>>
      ELSE IF c.conn = "wrapped"
      THEN <<Field("items", <<"[", "T", "Connection", "!", "]", "!">>, <<>>)>>
      ELSE <<Field("items", <<"T", "Connection">>, <<>>)>>)
  \o [i \in 1..c.own |-> Field("f" \o ToString(i), <<"String">>, <<>>)]
NodeFields(c) ==
  <<Field("byId", <<"T">>, <<SchemaArg("id", <<"ID", "!">>)>>)>>
  \o [i \in 1..c.node |-> Field("n" \o ToString(i), <<"String">>, <<>>)]
TypesOf(c) ==
  {SchemaType("T", "OBJECT", OwnFields(c))}
  \cup (IF c.conn = "none" THEN {}
        ELSE {SchemaType("TConnection", "OBJECT",
                IF c.conn = "noEdges"
                THEN <<Field("total", <<"Int">>, <<>>)>>
                ELSE <<Field("total", <<"Int">>, <<>>),
                       Field("edges", <<"[", "T", "Edge", "]">>, <<>>)>>)})
  \cup (IF c.conn \in {"none", "noEdges", "noEdgeType"} THEN {}
        ELSE {SchemaType("TEdge", "OBJECT",
                IF c.conn = "noNode"
                THEN <<Field("cursor", <<"String">>, <<>>)>>
                ELSE <<Field("cursor", <<"String">>, <<>>),
                       Field("node", <<"N", "!">>, <<>>)>>)})
  \cup (IF c.conn \in {"full", "wrapped"}
        THEN {SchemaType("N", "OBJECT", NodeFields(c))} ELSE {})
SchemaOf(c) ==
  [name \in {t.Name : t \in TypesOf(c)} |->
      CHOOSE t \in TypesOf(c) : t.Name = name]

BaseLeaf == [own |-> 1, self |-> FALSE, conn |-> "none", node |-> 0]
BasePath == GraphQLPath(<<PathSegment("next", <<"T">>, <<>>)>>)

\* every path against one schema, and every schema under short paths
GeneratorInputs ==
  {[path |-> p, schema |-> SchemaOf(BaseLeaf)] : p \in GraphQLPaths}
  \cup {[path |-> GraphQLPath(inner \o <<PathSegment("next", <<"T">>, <<>>)>>),
         schema |-> SchemaOf(c)] :
            c \in LeafSchemas,
            inner \in {<<>>, <<PathSegment("alt", <<"P">>, <<>>)>>}}

\* ----------------------------------------------------- the text pieces
\* The query text is the sequence of the pieces written to queryBuilder:
\* a name, a brace, a line break, a run of spaces are pieces of their own.
RECURSIVE Spaces(_)
Spaces(n) == IF n <= 0 THEN "" ELSE "  " \o Spaces(n - 2)

\* strings.Join of a list of piece sequences
RECURSIVE Join(_, _)
Join(list, sep) ==
  IF list = <<>> THEN <<>>
  ELSE IF Len(list) = 1 THEN list[1]
  ELSE list[1] \o <<sep>> \o Join(Tail(list), sep)

\* strings.TrimSuffix(t, "!")
TrimSuffixBang(t) ==
  IF HasSuffix(t, <<"!">>) THEN SubSeq(t, 1, Len(t) - 1) ELSE t

\* strings.Trim(t, "[]!"): every leading and trailing "[", "]" and "!"
RECURSIVE TrimLeft(_), TrimRight(_)
TrimLeft(t) ==
  IF t # <<>> /\ t[1] \in {"[", "]", "!"} THEN TrimLeft(Tail(t)) ELSE t
TrimRight(t) ==
  IF t # <<>> /\ t[Len(t)] \in {"[", "]", "!"}
  THEN TrimRight(SubSeq(t, 1, Len(t) - 1)) ELSE t

getBaseTypeName(typeName) ==
  LET result == TrimSuffixBang(typeName)
  IN  IF HasPrefix(result, <<"[">>) /\ HasSuffix(result, <<"]">>)
      THEN TrimRight(TrimLeft(result))
      ELSE result

isConnectionType(typeName) ==
  HasSuffix(getBaseTypeName(typeName), <<"Connection">>)

\* g.schema.GetType: the type, or Nil
NilType == [Nil |-> TRUE]
GetTypeOf(scm, name) == IF name \in DOMAIN scm THEN scm[name] ELSE NilType

\* the loop over edgeTyp.Fields of getNodeType from the k-th field on:
\* the base type of the first field named node, or <<>> for none
RECURSIVE nodeOfEdge(_, _)
nodeOfEdge(edgeTyp, k) ==
  IF k > Len(edgeTyp.Fields) THEN <<>>
  ELSE IF edgeTyp.Fields[k].Name = "node"
  THEN getBaseTypeName(edgeTyp.Fields[k].Type)
  ELSE nodeOfEdge(edgeTyp, k + 1)

\* whether that loop returns
RECURSIVE hasNode(_, _)
hasNode(edgeTyp, k) ==
  IF k > Len(edgeTyp.Fields) THEN FALSE
  ELSE IF edgeTyp.Fields[k].Name = "node" THEN TRUE
  ELSE hasNode(edgeTyp, k + 1)

\* the loop over connType.Fields of getNodeType from the k-th field on
RECURSIVE getNodeTypeFrom(_, _, _)
getNodeTypeFrom(scm, connType, k) ==
  IF k > Len(connType.Fields) THEN <<>>
  ELSE LET field == connType.Fields[k]
           edgeTyp == GetTypeOf(scm, Str(getBaseTypeName(field.Type)))
       IN  IF field.Name = "edges" /\ edgeTyp # NilType /\ hasNode(edgeTyp, 1)
           THEN nodeOfEdge(edgeTyp, 1)
           ELSE getNodeTypeFrom(scm, connType, k + 1)

\* getNodeType: <<>> is the empty string
getNodeType(scm, connectionType) ==
  LET connType == GetTypeOf(scm, Str(getBaseTypeName(connectionType)))
  IN  IF connType # NilType THEN getNodeTypeFrom(scm, connType, 1) ELSE <<>>

\* generateExampleValue: the value as json.Marshal writes it
generateExampleValue(typeName) ==
  IF Contains(typeName, <<"String">>) THEN "\"example_string\""
  ELSE IF Contains(typeName, <<"Int">>) THEN "42"
  ELSE IF Contains(typeName, <<"Float">>) THEN "3.14"
  ELSE IF Contains(typeName, <<"ID">>) THEN "\"123\""
  ELSE IF Contains(typeName, <<"Boolean">>) THEN "true"
  ELSE IF HasPrefix(typeName, <<"[">>) THEN "[]"
  ELSE "null"

\* ------------------------------------------------------- addLeafFields
\* "if fieldCount >= 2 { break }" and "if count >= 3 { break }"
nodeCountReached(fieldCount) == fieldCount >= 2
leafCountReachedLate(count) == count >= 4
leafCountReached(count) == count >= 3

\* the loop over nodeTyp.Fields from the k-th field on
RECURSIVE nodeFieldsFrom(_, _, _, _)
nodeFieldsFrom(nodeTyp, k, fieldCount, ind) ==
  IF k > Len(nodeTyp.Fields) THEN <<>>
  ELSE LET nodeField == nodeTyp.Fields[k]
       IN  IF Len(nodeField.Args) = 0 /\ nodeField.Name # "__typename"
           THEN <<"\n", Spaces(ind + 2), nodeField.Name>>
                \o (IF nodeCountReached(fieldCount + 1) THEN <<>>
                    ELSE nodeFieldsFrom(nodeTyp, k + 1, fieldCount + 1, ind))
           ELSE nodeFieldsFrom(nodeTyp, k + 1, fieldCount, ind)

\* the sub-selection written for a field of a connection type
connectionFields(scm, f, ind) ==
  LET nodeType == getNodeType(scm, f.Type)
      nodeTyp == GetTypeOf(scm, Str(nodeType))
  IN  <<" ", "{">> \o <<"\n", Spaces(ind + 2), "__typename">>
      \o (IF nodeType # <<>> /\ nodeTyp # NilType
          THEN nodeFieldsFrom(nodeTyp, 1, 0, ind) ELSE <<>>)
      \o <<"\n", Spaces(ind), "}">>

\* the loop over typ.Fields from the k-th field on
RECURSIVE leafFieldsFrom(_, _, _, _, _, _)
leafFieldsFrom(scm, typ, typeName, k, count, ind) ==
  IF k > Len(typ.Fields) THEN <<>>
  ELSE LET f == typ.Fields[k]
       IN  IF Str(f.Type) # Str(typeName)
           THEN <<"\n", Spaces(ind), f.Name>>
                \o (IF isConnectionType(f.Type)
                    THEN connectionFields(scm, f, ind) ELSE <<>>)
                \o (IF leafCountReached(count + 1) THEN <<>>
                    ELSE leafFieldsFrom(scm, typ, typeName, k + 1, count + 1,
                                        ind))
           ELSE leafFieldsFrom(scm, typ, typeName, k + 1, count, ind)

addLeafFields(scm, ind, typeName) ==
  LET typ == GetTypeOf(scm, Str(typeName))
  IN  <<Spaces(ind), "__typename">>
      \o (IF typ = NilType THEN <<>>
          ELSE leafFieldsFrom(scm, typ, typeName, 1, 0, ind))

\* --------------------------------------------------------- generateOne
\* fmt.Sprintf("%s_%s", seg.Name, arg.Name)
varName(seg, arg) == seg.Name \o "_" \o arg.Name

\* vars[name] = value
MapPut(m, name, value) ==
  [k \in DOMAIN m \cup {name} |-> IF k = name THEN value ELSE m[k]]

\* the inner loop of "Collect variables" over seg.Args from the k-th on;
\* st = [vars, varDefs]
RECURSIVE collectArgs(_, _, _)
collectArgs(seg, k, st) ==
  IF k > Len(seg.Args) THEN st
  ELSE LET arg == seg.Args[k]
           name == varName(seg, arg)
       IN  collectArgs(seg, k + 1,
             [vars |-> MapPut(st.vars, name, generateExampleValue(arg.Type)),
              varDefs |-> IF arg.Required
                          THEN Append(st.varDefs,
                                      <<"$", name, ": ", Str(arg.Type)>>)
                          ELSE st.varDefs])

\* argParts of a segment
argParts(seg) ==
  [k \in 1..Len(seg.Args) |->
      <<seg.Args[k].Name, ": ", "$", varName(seg, seg.Args[k])>>]

\* the passes of "for i := 0; i < len(path.Segments)-1; i++"
closeCountAll(n) == n
closeCount(n) == n - 1

Segments == genPath.Segments

\* one pass of the loop "Collect variables"
GenCollect ==
  /\ genPc = "collect" /\ segIdx <= Len(Segments)
  /\ LET st == collectArgs(Segments[segIdx], 1,
                           [vars |-> queryVars, varDefs |-> varDefs])
     IN  queryVars' = st.vars /\ varDefs' = st.varDefs
  /\ segIdx' = segIdx + 1
  /\ UNCHANGED <<libVars, cliVars, uiState, genSchema, genPath, queryBuilder,
                 indent, genPc>>

\* "Build query header" and indent := "  "
GenHeader ==
  /\ genPc = "collect" /\ segIdx > Len(Segments)
  /\ queryBuilder' =
        <<"query">>
        \o (IF Len(varDefs) > 0
            THEN <<"(">> \o Join(varDefs, ", ") \o <<")">> ELSE <<>>)
        \o <<" ", "{", "\n">>
  /\ indent' = 2
  /\ segIdx' = 1
  /\ genPc' = "body"
  /\ UNCHANGED <<libVars, cliVars, uiState, genSchema, genPath, queryVars,
                 varDefs>>

\* one pass of the loop "Build body"; after the last segment the loop
\* "Close braces" starts with i = 0
GenSegment ==
  /\ genPc = "body" /\ segIdx <= Len(Segments)
  /\ LET seg == Segments[segIdx]
         head == <<Spaces(indent), seg.Name>>
                 \o (IF Len(seg.Args) > 0
                     THEN <<"(">> \o Join(argParts(seg), ", ") \o <<")">>
                     ELSE <<>>)
                 \o <<" ", "{", "\n">>
     IN  IF segIdx < Len(Segments)
         THEN /\ queryBuilder' = queryBuilder \o head
              /\ indent' = indent + 2
              /\ segIdx' = segIdx + 1
              /\ genPc' = "body"
         ELSE /\ queryBuilder' =
                    queryBuilder \o head
                    \o addLeafFields(genSchema, indent + 2, seg.Type)
                    \o <<"\n", Spaces(indent), "}">>
              /\ indent' = indent
              /\ segIdx' = 0
              /\ genPc' = "close"
  /\ UNCHANGED <<libVars, cliVars, uiState, genSchema, genPath, queryVars,
                 varDefs>>

\* one pass of the loop "Close braces"; indent[:len(indent)-2] panics when
\* indent is shorter than two characters
GenClose ==
  /\ genPc = "close" /\ segIdx < closeCount(Len(Segments))
  /\ IF indent < 2
     THEN /\ genPc' = "panic"
          /\ UNCHANGED <<queryBuilder, indent, segIdx>>
     ELSE /\ indent' = indent - 2
          /\ queryBuilder' = queryBuilder \o <<"\n", Spaces(indent - 2), "}">>
          /\ segIdx' = segIdx + 1
          /\ genPc' = "close"
  /\ UNCHANGED <<libVars, cliVars, uiState, genSchema, genPath, queryVars,
                 varDefs>>

\* the last brace, and the return of GeneratedQuery{Query, Variables}
GenReturn ==
  /\ genPc = "close" /\ segIdx >= closeCount(Len(Segments))
  /\ queryBuilder' = queryBuilder \o <<"\n", "}">>
  /\ genPc' = "done"
  /\ UNCHANGED <<libVars, cliVars, uiState, genSchema, genPath, queryVars,
                 varDefs, indent, segIdx>>

GenInit ==
  /\ LibraryOff /\ CliOff /\ UiOff
  /\ \E in \in GeneratorInputs : genPath = in.path /\ genSchema = in.schema
  /\ queryBuilder = <<>> /\ queryVars = NoVars /\ varDefs = <<>>
  /\ indent = 0 /\ segIdx = 1
  /\ genPc = "collect"

GenNext ==
  \/ GenCollect
  \/ GenHeader
  \/ GenSegment
  \/ GenClose
  \/ GenReturn

GenSpec == GenInit /\ [][GenNext]_vars

\* ------------------------------------------ properties of generateOne
\* generateOne has returned
Generated == genPc = "done"

\* the lines of a text: its pieces between the line breaks
RECURSIVE SplitLines(_)
SplitLines(t) ==
  LET breaks == {i \in 1..Len(t) : t[i] = "\n"}
  IN  IF breaks = {} THEN <<t>>
      ELSE LET b == CHOOSE i \in breaks : \A j \in breaks : i <= j
           IN  <<SubSeq(t, 1, b - 1)>> \o SplitLines(SubSeq(t, b + 1, Len(t)))

\* line 1 is the header, line k + 1 the k-th segment
QueryLines == SplitLines(queryBuilder)
HeaderLine == QueryLines[1]
SegmentLine(k) == QueryLines[k + 1]

\* the declarations "$name: type" of the header, by their positions
DeclPositions ==
  {i \in 1..(Len(HeaderLine) - 3) :
      HeaderLine[i] = "$" /\ HeaderLine[i + 2] = ": "}
Declared ==
  {[var |-> HeaderLine[i + 1], type |-> HeaderLine[i + 3]] :
      i \in DeclPositions}

\* the references "arg: $name" of a line, in their order
RefPositions(line) ==
  {i \in 3..(Len(line) - 1) : line[i] = "$" /\ line[i - 1] = ": "}
RECURSIVE RefsFrom(_, _)
RefsFrom(line, i) ==
  IF i > Len(line) THEN <<>>
  ELSE IF i \in RefPositions(line)
  THEN <<[arg |-> line[i - 2], var |-> line[i + 1]]>> \o RefsFrom(line, i + 1)
  ELSE RefsFrom(line, i + 1)
Refs(line) == RefsFrom(line, 1)

\* the (segment, argument) pairs of the path
ArgPairs ==
  UNION {{<<k, j>> : j \in 1..Len(Segments[k].Args)} : k \in 1..Len(Segments)}
ArgOf(pr) == Segments[pr[1]].Args[pr[2]]

\* the j-th argument of segment k is referenced on the line of its segment
Referenced(pr) ==
  /\ Len(Refs(SegmentLine(pr[1]))) = Len(Segments[pr[1]].Args)
  /\ Refs(SegmentLine(pr[1]))[pr[2]].arg = ArgOf(pr).Name
\* and this is the variable it is bound to
VarOf(pr) == Refs(SegmentLine(pr[1]))[pr[2]].var

\* C21: every variable the body references is declared in the header with
\* the declared type of its argument, whether the argument is required or
\* not.
C21_ReferencesDeclared ==
  Generated =>
     \A pr \in ArgPairs :
        Referenced(pr) =>
           [var |-> VarOf(pr), type |-> Str(ArgOf(pr).Type)] \in Declared

\* C22: distinct (segment, argument) pairs have distinct variables: no
\* variable is declared twice and no entry of the map is overwritten.
C22_OneVariablePerArgument ==
  Generated =>
     /\ \A pr, qr \in ArgPairs :
           (Referenced(pr) /\ Referenced(qr) /\ pr # qr)
           => VarOf(pr) # VarOf(qr)
     /\ Cardinality(DeclPositions) = Cardinality({d.var : d \in Declared})
     /\ Cardinality(DOMAIN queryVars) = Cardinality(ArgPairs)

\* C23: every argument of every segment is referenced on its segment, and
\* the map binds its variable to the example value of its declared type.
C23_ReferencedWithExample ==
  Generated =>
     \A pr \in ArgPairs :
        /\ Referenced(pr)
        /\ VarOf(pr) \in DOMAIN queryVars
        /\ queryVars[VarOf(pr)] = generateExampleValue(ArgOf(pr).Type)

\* the table of spec.md 4.4 as the claim reads it: a list gives the empty
\* sequence whatever it is a list of
ExampleTable(t) ==
  IF HasPrefix(t, <<"[">>) THEN "[]"
  ELSE IF Contains(t, <<"String">>) THEN "\"example_string\""
  ELSE IF Contains(t, <<"Int">>) THEN "42"
  ELSE IF Contains(t, <<"Float">>) THEN "3.14"
  ELSE IF Contains(t, <<"ID">>) THEN "\"123\""
  ELSE IF Contains(t, <<"Boolean">>) THEN "true"
  ELSE "null"

\* the example values computed so far, by declared type
Synthesized ==
  {[type |-> ArgOf(pr).Type, value |-> generateExampleValue(ArgOf(pr).Type)] :
      pr \in {qr \in ArgPairs : genPc # "collect" \/ qr[1] < segIdx}}

\* C24: generateExampleValue follows the table for every declared type.
C24_ExampleTable ==
  \A e \in Synthesized : e.value = ExampleTable(e.type)

\* ---------------------------------------------------- the leaf selection
\* The lines addLeafFields has written: those after the lines of the header
\* and the segments and before the closing braces of the segments and of
\* the query.
LeafLines ==
  SubSeq(QueryLines, Len(Segments) + 2, Len(QueryLines) - Len(Segments) - 1)
LeafIndent == Spaces(2 * (Len(Segments) + 1))
NestedIndent == Spaces(2 * (Len(Segments) + 2))

\* the fields selected at the top of the leaf, by their lines
TopPositions ==
  {i \in 1..Len(LeafLines) :
      LeafLines[i][1] = LeafIndent /\ LeafLines[i][2] # "}"}
RECURSIVE NamesFrom(_, _, _)
NamesFrom(lines, positions, i) ==
  IF i > Len(lines) THEN <<>>
  ELSE (IF i \in positions THEN <<lines[i][2]>> ELSE <<>>)
       \o NamesFrom(lines, positions, i + 1)
TopNames == NamesFrom(LeafLines, TopPositions, 1)

\* the line of the selected field named name, and the names selected
\* between its opening brace and the closing brace that follows
LineOf(name) == CHOOSE i \in TopPositions : LeafLines[i][2] = name
Opens(i) == Len(LeafLines[i]) = 4 /\ LeafLines[i][4] = "{"
ClosingOf(i) ==
  CHOOSE c \in (i + 1)..Len(LeafLines) :
     /\ LeafLines[c] = <<LeafIndent, "}">>
     /\ \A d \in (i + 1)..(c - 1) : LeafLines[d] # <<LeafIndent, "}">>
NestedNames(i) ==
  NamesFrom(LeafLines,
            {d \in (i + 1)..(ClosingOf(i) - 1) : LeafLines[d][1] = NestedIndent},
            1)

\* a type reference without its list and non-null markers
NamedType(t) == Str(SelectSeq(t, LAMBDA x : x \notin {"[", "]", "!"}))

\* the first n elements of a sequence
Take(seq, n) == SubSeq(seq, 1, Min(n, Len(seq)))
FieldNames(fields) == [k \in 1..Len(fields) |-> fields[k].Name]

\* the terminal type and its fields whose type is not the terminal type
Terminal == Segments[Len(Segments)].Type
TerminalKnown == Str(Terminal) \in DOMAIN genSchema
Eligible ==
  SelectSeq(genSchema[Str(Terminal)].Fields,
            LAMBDA f : Str(f.Type) # Str(Terminal))
EndsInConnection(f) ==
  LET name == SelectSeq(f.Type, LAMBDA x : x \notin {"[", "]", "!"})
  IN  name # <<>> /\ name[Len(name)] = "Connection"

\* the fields without arguments of the type reached from the connection
\* field f by edges and then node; none when edges or node is missing
ReachedByEdgesNode(f) ==
  LET conn == NamedType(f.Type)
      edges == IF conn \in DOMAIN genSchema
               THEN {e \in Range(genSchema[conn].Fields) : e.Name = "edges"}
               ELSE {}
      nodes == UNION {IF NamedType(e.Type) \in DOMAIN genSchema
                      THEN {n \in Range(genSchema[NamedType(e.Type)].Fields) :
                               n.Name = "node"}
                      ELSE {} : e \in edges}
  IN  {NamedType(n.Type) : n \in nodes} \cap DOMAIN genSchema
ArgumentLess(name) ==
  SelectSeq(genSchema[name].Fields, LAMBDA f : Len(f.Args) = 0)

\* C25: the leaf selection starts with __typename, then holds the first (at
\* most 3) of the terminal type's fields whose type is not the terminal
\* type, in declaration order; under a selected field of a Connection type
\* it holds __typename and the first (at most 2) argument-less fields of
\* the type reached by edges and node, and __typename alone when edges or
\* node is missing; other fields have no sub-selection.
C25_LeafExpansion ==
  Generated =>
     /\ TopNames # <<>> /\ TopNames[1] = "__typename"
     /\ Len(Tail(TopNames)) <= 3
     /\ Tail(TopNames) =
           (IF TerminalKnown THEN FieldNames(Take(Eligible, 3)) ELSE <<>>)
     /\ TerminalKnown =>
           \A k \in 1..Min(3, Len(Eligible)) :
              LET f == Eligible[k]
                  i == LineOf(f.Name)
                  reached == ReachedByEdgesNode(f)
              IN  IF EndsInConnection(f)
                  THEN /\ Opens(i)
                       /\ Len(NestedNames(i)) <= 3
                       /\ NestedNames(i) =
                             <<"__typename">>
                             \o (IF reached = {} THEN <<>>
                                 ELSE FieldNames(Take(ArgumentLess(
                                        CHOOSE n \in reached : TRUE), 2)))
                  ELSE ~Opens(i)

\* a leaf that meets both limits: more than 3 eligible fields, a self-typed
\* field that is skipped, and a connection whose node type has more than 2
\* argument-less fields
C25_Witness ==
  /\ Generated /\ TerminalKnown
  /\ Len(Eligible) > 3
  /\ Len(Eligible) < Len(genSchema[Str(Terminal)].Fields)
  /\ \E k \in 1..3 :
        /\ EndsInConnection(Eligible[k])
        /\ \E n \in ReachedByEdgesNode(Eligible[k]) :
              Len(ArgumentLess(n)) > 2
        /\ Len(NestedNames(LineOf(Eligible[k].Name))) = 3

\* ------------------------------------------------------------ the braces
Count(t, c) == Cardinality({i \in 1..Len(t) : t[i] = c})

\* C30: in the text written so far no prefix closes more braces than it
\* has opened, the returned text has as many "}" as "{", and the loop that
\* closes the braces never cuts indent below the base indent of two
\* spaces (nor slices it out of range).
C30_BracesBalanced ==
  /\ \A n \in 0..Len(queryBuilder) :
        Count(SubSeq(queryBuilder, 1, n), "}")
        <= Count(SubSeq(queryBuilder, 1, n), "{")
  /\ Generated => Count(queryBuilder, "}") = Count(queryBuilder, "{")
  /\ genPc \in {"body", "close", "done"} => indent >= 2
  /\ genPc # "panic"

\* a returned query of two segments or more whose leaf opens a connection
C30_Witness ==
  /\ Generated /\ Len(Segments) >= 2
  /\ Count(queryBuilder, "{") > Len(Segments) + 1
  /\ Count(queryBuilder, "}") = Count(queryBuilder, "{")

\* ======================================================================
\* tui: Model.Update (src/unnamed/part_001) under the Bubble Tea runtime
\* ======================================================================
\* queries of the longest list
MaxQueries == 2

\* tea.KeyMsg by its String(), tea.WindowSizeMsg and statusMsg
KeyMsg(key) == [type |-> "KeyMsg", key |-> key, text |-> "", size |-> <<0, 0>>]
WindowSizeMsg(w, h) ==
  [type |-> "WindowSizeMsg", key |-> "", text |-> "", size |-> <<w, h>>]
StatusMsg(text) ==
  [type |-> "statusMsg", key |-> "", text |-> text, size |-> <<0, 0>>]

Keys == {"ctrl+c", "q", "esc", "enter", "s", "e", "c", "up", "down"}
WindowSizes == {<<80, 24>>}

\* tea.Quit, and a command whose function returns a statusMsg
Quit == [kind |-> "quit", text |-> ""]
StatusCmd(text) == [kind |-> "status", text |-> text]

\* fmt.Sprintf("query_%03d.graphql", index)
FileName(index) == "query_00" \o ToString(index) \o ".graphql"

\* NewModel on k paths: the list shows the queries 1..k with the first
\* selected; selectedQuery is given by its Index, 0 for the zero value
NewModel(k) ==
  [queries |-> k, cursor |-> 0, selectedQuery |-> 0, showQuery |-> FALSE,
   width |-> 0, height |-> 0, listHeight |-> 0, statusMsg |-> ""]

\* m.list.Update(msg) on a key: the cursor keys of the list move the
\* selection inside the list, the other keys of the model leave it alone
listUpdate(m, key) ==
  IF key = "up" /\ m.cursor > 0 THEN [m EXCEPT !.cursor = m.cursor - 1]
  ELSE IF key = "down" /\ m.cursor < m.queries - 1
  THEN [m EXCEPT !.cursor = m.cursor + 1]
  ELSE m

\* handleListKeys: [model, cmd]
handleListKeys(m, key) ==
  IF key \in {"ctrl+c", "q"} THEN [model |-> m, cmd |-> Quit]
  ELSE IF key = "s"
  THEN [model |-> m, cmd |-> StatusCmd("Saved all queries to ./queries/")]
  ELSE IF key = "e" THEN [model |-> m, cmd |-> StatusCmd("Exported!")]
  ELSE IF key = "enter" /\ m.cursor < m.queries
  THEN [model |-> listUpdate([m EXCEPT !.selectedQuery = m.cursor + 1,
                                       !.showQuery = TRUE], key),
        cmd |-> NoCmd]
  ELSE [model |-> listUpdate(m, key), cmd |-> NoCmd]

\* handleQueryViewKeys: [model, cmd]
handleQueryViewKeys(m, key) ==
  IF key \in {"q", "esc"}
  THEN [model |-> [m EXCEPT !.showQuery = FALSE, !.statusMsg = ""],
        cmd |-> NoCmd]
  ELSE IF key = "c"
  THEN [model |-> m, cmd |-> StatusCmd("Copied to clipboard!")]
  ELSE IF key = "s"
  THEN [model |-> m,
        cmd |-> StatusCmd("Saved to " \o FileName(m.selectedQuery))]
  ELSE [model |-> m, cmd |-> NoCmd]

\* the runtime starts the command Update has returned
started(cmd) ==
  IF cmd.kind = "status" THEN uiPending \cup {cmd.text} ELSE uiPending

\* Update on a tea.KeyMsg while the list is shown
UiListKey ==
  /\ uiPc = "running" /\ ~uiModel.showQuery
  /\ \E key \in Keys :
        LET r == handleListKeys(uiModel, key)
        IN  /\ uiMsg' = KeyMsg(key)
            /\ uiModel' = r.model /\ uiCmd' = r.cmd
            /\ uiPending' = started(r.cmd)
  /\ UNCHANGED <<libVars, cliVars, genState, uiPc>>

\* Update on a tea.KeyMsg while a query is shown
UiQueryKey ==
  /\ uiPc = "running" /\ uiModel.showQuery
  /\ \E key \in Keys :
        LET r == handleQueryViewKeys(uiModel, key)
        IN  /\ uiMsg' = KeyMsg(key)
            /\ uiModel' = r.model /\ uiCmd' = r.cmd
            /\ uiPending' = started(r.cmd)
  /\ UNCHANGED <<libVars, cliVars, genState, uiPc>>

\* Update on a tea.WindowSizeMsg
UiWindowSize ==
  /\ uiPc = "running"
  /\ \E sz \in WindowSizes :
        /\ uiMsg' = WindowSizeMsg(sz[1], sz[2])
        /\ uiModel' = [uiModel EXCEPT !.width = sz[1], !.height = sz[2],
                                       !.listHeight = sz[2] - 4]
  /\ uiCmd' = NoCmd
  /\ UNCHANGED <<libVars, cliVars, genState, uiPending, uiPc>>

\* a command has returned its statusMsg and Update receives it
UiStatus ==
  /\ uiPc = "running"
  /\ \E text \in uiPending :
        /\ uiMsg' = StatusMsg(text)
        /\ uiModel' = [uiModel EXCEPT !.statusMsg = text]
        /\ uiPending' = uiPending \ {text}
  /\ uiCmd' = NoCmd
  /\ UNCHANGED <<libVars, cliVars, genState, uiPc>>

\* the runtime runs tea.Quit: the program ends
UiQuit ==
  /\ uiPc = "running" /\ uiCmd = Quit
  /\ uiPc' = "quit"
  /\ UNCHANGED <<libVars, cliVars, genState, uiModel, uiMsg, uiCmd,
                 uiPending>>

UiInit ==
  /\ LibraryOff /\ CliOff /\ GenOff
  /\ \E k \in 0..MaxQueries : uiModel = NewModel(k)
  /\ uiMsg = NoMsg /\ uiCmd = NoCmd /\ uiPending = {}
  /\ uiPc = "running"

UiNext ==
  \/ UiListKey
  \/ UiQueryKey
  \/ UiWindowSize
  \/ UiStatus
  \/ UiQuit

UiSpec == UiInit /\ [][UiNext]_vars

\* C29: a ctrl+c key message handled by Model.Update yields the quit
\* command, in the list view and in the query view.
C29_CtrlCQuits ==
  (uiPc # "off" /\ uiMsg = KeyMsg("ctrl+c")) => uiCmd = Quit
====
